---- MODULE Spec2Model ----
(***************************************************************************)
(* A state-machine model of the solar-system visualisation: the cached     *)
(* render dispatcher (js/renderer.js), the render loop with its camera     *)
(* transition and CME particle life cycle (main program, kept in           *)
(* js/utils/textures.js), and the orbital placement formulas.              *)
(*                                                                         *)
(* Numbers are exact rationals <<numerator, denominator>> in lowest terms. *)
(* Angles are numbers measured in quarter turns (Math.PI is 2), and        *)
(* Math.cos / Math.sin are tabulated at the whole quarter turns, where     *)
(* they are rational.  Times are seconds.                                  *)
(***************************************************************************)
EXTENDS Integers, Sequences, FiniteSets, TLC

VARIABLES
    config,            \* the body table (sun, planets, moons) the program was loaded with
    textures,          \* the texture objects: what each holds and how its image load went
    loading,           \* loadTextures' totalTextures and loadedCount, and the loading overlay
    camera,            \* Camera: zoom, focusTarget, pan, showOrbits, timeScale
    cameraTransition,  \* the camera transition object
    accumulatedTime,   \* simulation time, advanced by deltaTime * camera.timeScale
    lastFrameTime,     \* timestamp (s) of the previous frame
    started,           \* the load handler has run render(0)
    frames,            \* number of frames rendered so far
    gl,                \* graphics state: glStateCache and what the API really holds
    cmeParticles,      \* active CME particles
    nextCMETime,       \* accumulated time after which the next burst is due
    nextId,            \* identity given to the next spawned particle
    focusPoint,        \* the focus point the last frame looked at
    deltaTime,         \* deltaTime of the last frame
    inputs,            \* number of user inputs handled so far
    lastEvent,         \* the handler that ran last
    lastRequest,       \* history: the last focus request and the deltaTime summed since
    lastBurst,         \* history: the delay armed by the last burst, the deltaTime summed since
    computed           \* the last matrix or shader computation: its inputs and its value

vars == <<config, textures, loading, camera, cameraTransition, accumulatedTime, lastFrameTime,
          started, frames, gl, cmeParticles, nextCMETime, nextId, focusPoint,
          deltaTime, inputs, lastEvent, lastRequest, lastBurst, computed>>

-----------------------------------------------------------------------------
(* Bounds of the exploration *)

\* frames explored by the specification of the render dispatcher
MaxRenderFrames == 3
\* frames explored by the specification of the camera transition
MaxCameraFrames == 4
\* user inputs explored by the specification of the camera transition
MaxInputs == 2
\* frames explored by the specification of the particle life cycle
MaxParticleFrames == 7
\* planets in a configuration of the render dispatcher's specification
MaxPlanets == 2
\* frames explored by the specification of the texture loads
MaxTextureFrames == 2
MaxURLFrames == 2
MaxBands == 8
MaxSegments == 24
\* frames of the moon-placement specification
MaxMoonFrames == 4

-----------------------------------------------------------------------------
(* Exact rational arithmetic *)

Abs(x) == IF x < 0 THEN -x ELSE x

RECURSIVE GCD(_, _)
GCD(a, b) == IF b = 0 THEN a ELSE GCD(b, a % b)

Rat(n, d) ==
    LET s == IF d < 0 THEN -1 ELSE 1
        g == GCD(Abs(n), Abs(d))
    IN  <<(s * n) \div g, (s * d) \div g>>

R(n) == <<n, 1>>
RAdd(a, b) == Rat(a[1] * b[2] + b[1] * a[2], a[2] * b[2])
RSub(a, b) == Rat(a[1] * b[2] - b[1] * a[2], a[2] * b[2])
RMul(a, b) == Rat(a[1] * b[1], a[2] * b[2])
RDiv(a, b) == Rat(a[1] * b[2], a[2] * b[1])
RNeg(a) == <<-a[1], a[2]>>
RLt(a, b) == a[1] * b[2] < b[1] * a[2]
RLe(a, b) == a[1] * b[2] <= b[1] * a[2]
RMax(a, b) == IF RLt(a, b) THEN b ELSE a
RMin(a, b) == IF RLt(b, a) THEN b ELSE a

Zero == R(0)
One == R(1)

\* Math.PI, in quarter turns
Pi == R(2)

\* Math.cos and Math.sin at a whole number x of quarter turns, and at a whole
\* number of quarter turns plus the angle whose cosine is 4/5 and whose sine
\* is 3/5 (36.9 degrees, written as 41/100 of a quarter turn)
Cos(x) ==
    CASE x[2] = 1 /\ x[1] % 4 = 0 -> R(1)
      [] x[2] = 1 /\ x[1] % 4 = 1 -> R(0)
      [] x[2] = 1 /\ x[1] % 4 = 2 -> R(-1)
      [] x[2] = 1 /\ x[1] % 4 = 3 -> R(0)
      [] x[2] = 100 /\ x[1] % 100 = 41 /\ (x[1] \div 100) % 4 = 0 -> Rat(4, 5)
      [] x[2] = 100 /\ x[1] % 100 = 41 /\ (x[1] \div 100) % 4 = 1 -> Rat(-3, 5)
      [] x[2] = 100 /\ x[1] % 100 = 41 /\ (x[1] \div 100) % 4 = 2 -> Rat(-4, 5)
      [] x[2] = 100 /\ x[1] % 100 = 41 /\ (x[1] \div 100) % 4 = 3 -> Rat(3, 5)

Sin(x) ==
    CASE x[2] = 1 /\ x[1] % 4 = 0 -> R(0)
      [] x[2] = 1 /\ x[1] % 4 = 1 -> R(1)
      [] x[2] = 1 /\ x[1] % 4 = 2 -> R(0)
      [] x[2] = 1 /\ x[1] % 4 = 3 -> R(-1)
      [] x[2] = 100 /\ x[1] % 100 = 41 /\ (x[1] \div 100) % 4 = 0 -> Rat(3, 5)
      [] x[2] = 100 /\ x[1] % 100 = 41 /\ (x[1] \div 100) % 4 = 1 -> Rat(4, 5)
      [] x[2] = 100 /\ x[1] % 100 = 41 /\ (x[1] \div 100) % 4 = 2 -> Rat(-3, 5)
      [] x[2] = 100 /\ x[1] % 100 = 41 /\ (x[1] \div 100) % 4 = 3 -> Rat(-4, 5)

\* (degrees * Math.PI) / 180
DegToRad(deg) == RDiv(RMul(deg, Pi), R(180))

V3(x, y, z) == [x |-> x, y |-> y, z |-> z]
Origin == V3(Zero, Zero, Zero)

-----------------------------------------------------------------------------
(* The body table (js/config.js is consumed by the program; its shape is   *)
(* the one the program reads)                                              *)

None == <<>>
Some(v) == <<v>>
IsSome(o) == o # <<>>
Get(o) == o[1]

Moon(name, radius, orbitRadius, orbitSpeed, orbitalTilt, texture) ==
    [name |-> name, radius |-> radius, emissive |-> FALSE, texture |-> texture,
     orbitRadius |-> orbitRadius, orbitSpeed |-> orbitSpeed,
     orbitalTilt |-> orbitalTilt]

\* Earth's Moon: its own orbital tilt
Luna == Moon("Moon", Rat(1, 4), R(3), R(120), Some(R(90)), TRUE)
\* a moon that inherits its parent's equatorial plane
Io == Moon("Io", Rat(1, 2), R(4), R(60), None, TRUE)
Titan == Moon("Titan", Rat(1, 2), R(6), R(60), None, FALSE)
\* a moon with an orbital tilt of its own
Triton == Moon("Triton", Rat(1, 2), R(5), R(60), Some(R(90)), FALSE)
\* a moon of a planet without axial tilt
Phobos == Moon("Phobos", Rat(1, 4), R(2), R(60), None, FALSE)

Ring(inner, outer) == [inner |-> inner, outer |-> outer]

Earth ==
    [name |-> "Earth", radius |-> R(5), emissive |-> FALSE, texture |-> TRUE,
     orbitRadius |-> R(100), orbitSpeed |-> R(60), startAngle |-> R(0),
     inclination |-> R(0), eccentricity |-> Rat(1, 2),
     axialTilt |-> Some(R(90)), rotationSpeed |-> R(6), spot |-> FALSE,
     moons |-> <<Luna>>, hasRings |-> FALSE, rings |-> <<>>]

Jupiter ==
    [name |-> "Jupiter", radius |-> R(40), emissive |-> FALSE, texture |-> TRUE,
     orbitRadius |-> R(500), orbitSpeed |-> R(60), startAngle |-> R(90),
     inclination |-> R(90), eccentricity |-> R(0),
     axialTilt |-> Some(R(90)), rotationSpeed |-> R(6), spot |-> TRUE,
     moons |-> <<Io>>, hasRings |-> FALSE, rings |-> <<>>]

Saturn ==
    [name |-> "Saturn", radius |-> R(30), emissive |-> FALSE, texture |-> TRUE,
     orbitRadius |-> R(900), orbitSpeed |-> R(120), startAngle |-> R(180),
     inclination |-> R(0), eccentricity |-> R(0),
     axialTilt |-> Some(R(90)), rotationSpeed |-> R(6), spot |-> FALSE,
     moons |-> <<Io, Titan>>, hasRings |-> TRUE,
     rings |-> <<Ring(R(40), R(50)), Ring(R(52), R(60))>>]

Mars ==
    [name |-> "Mars", radius |-> R(1), emissive |-> FALSE, texture |-> FALSE,
     orbitRadius |-> R(150), orbitSpeed |-> R(60), startAngle |-> R(0),
     inclination |-> R(0), eccentricity |-> R(0),
     axialTilt |-> None, rotationSpeed |-> R(0), spot |-> FALSE,
     moons |-> <<Phobos>>, hasRings |-> FALSE, rings |-> <<>>]

Mercury ==
    [name |-> "Mercury", radius |-> R(2), emissive |-> FALSE, texture |-> FALSE,
     orbitRadius |-> R(40), orbitSpeed |-> R(120), startAngle |-> R(0),
     inclination |-> R(0), eccentricity |-> R(0),
     axialTilt |-> None, rotationSpeed |-> R(0), spot |-> FALSE,
     moons |-> <<>>, hasRings |-> FALSE, rings |-> <<>>]

Sun(emissive) ==
    [name |-> "Sun", radius |-> R(400), emissive |-> emissive, texture |-> TRUE,
     axialTilt |-> Some(R(0)), rotationSpeed |-> R(6)]

\* the configuration of the camera specification
SolarConfig == [sun |-> Sun(TRUE), planets |-> <<Earth, Jupiter>>]

PlanetKinds == {Earth, Jupiter, Saturn, Mars, Mercury}

\* the configurations of the render specification: a lit or emissive sun and
\* up to MaxPlanets planets of any kind, in any order
RenderConfigs ==
    {[sun |-> Sun(e), planets |-> ps] :
        e \in BOOLEAN,
        ps \in UNION {[1..n -> PlanetKinds] : n \in 1..MaxPlanets}}

\* loadTextures: the texture object of each slot that is loaded
Textures(cfg) ==
    [sun |-> IF cfg.sun.texture THEN Some("sun") ELSE None,
     saturnRing |-> Some("saturnRing"),
     earthClouds |-> Some("earthClouds"),
     earthSpecular |-> Some("earthSpecular"),
     earthNormal |-> Some("earthNormal"),
     earthNight |-> Some("earthNight")]

\* textures[body.name] || null
BodyTexture(body) == IF body.texture THEN Some(body.name) ELSE None

-----------------------------------------------------------------------------
(* Texture loading (loadTexture, loadTextures)                             *)

\* loadTexture as it returns: a texture object holding one grey pixel, with
\* the default sampling parameters, and an image load under way
LoadTexture ==
    [width |-> 1, height |-> 1, pixels |-> "placeholder", mipmaps |-> FALSE,
     minFilter |-> "NEAREST_MIPMAP_LINEAR", wrap |-> "REPEAT",
     status |-> "loading", warnings |-> 0]

\* (value & (value - 1)) === 0
IsPowerOf2(value) == \E k \in 0..12 : value = 0 \/ value = 2 ^ k

\* image.onload: the image replaces the pixel
OnLoad(t, width, height) ==
    IF IsPowerOf2(width) /\ IsPowerOf2(height)
    THEN [t EXCEPT !.width = width, !.height = height, !.pixels = "image",
                   !.mipmaps = TRUE, !.status = "loaded"]
    ELSE [t EXCEPT !.width = width, !.height = height, !.pixels = "image",
                   !.wrap = "CLAMP_TO_EDGE", !.minFilter = "LINEAR",
                   !.status = "loaded"]

OnErrorDiscards(t) ==
    [t EXCEPT !.width = 0, !.height = 0, !.pixels = "none", !.status = "failed",
              !.warnings = @ + 1]

\* image.onerror: a warning on the console, the texture is left alone
OnError(t) == [t EXCEPT !.status = "failed", !.warnings = @ + 1]

\* the names under which loadTextures stores a texture
TextureSlots(cfg) ==
    (IF cfg.sun.texture THEN {"sun"} ELSE {}) \cup {"saturnRing"}
        \cup {cfg.planets[i].name : i \in {j \in 1..Len(cfg.planets) : cfg.planets[j].texture}}
        \cup UNION {{cfg.planets[i].moons[k].name :
                        k \in {m \in 1..Len(cfg.planets[i].moons) :
                                  cfg.planets[i].moons[m].texture}} :
                    i \in 1..Len(cfg.planets)}

\* loadTextures: every slot is loaded before the call returns
LoadTextures(cfg) == [slot \in TextureSlots(cfg) |-> LoadTexture]

\* the loading state of a page whose loadTextures does not count
Uncounted == [totalTextures |-> 0, loadedCount |-> 0, overlay |-> "none"]

EarthLayers == {"earthClouds", "earthSpecular", "earthNormal", "earthNight"}

\* the loadTextures that reports progress: the names it stores a texture under
CountedSlots(cfg) == TextureSlots(cfg) \cup EarthLayers

\* the number of textured bodies among the planets and their moons
RECURSIVE TexturedMoons(_, _)
TexturedMoons(moons, k) ==
    IF k > Len(moons) THEN 0
    ELSE (IF moons[k].texture THEN 1 ELSE 0) + TexturedMoons(moons, k + 1)

RECURSIVE TexturedBodies(_, _)
TexturedBodies(planets, i) ==
    IF i > Len(planets) THEN 0
    ELSE (IF planets[i].texture THEN 1 ELSE 0) + TexturedMoons(planets[i].moons, 1)
             + TexturedBodies(planets, i + 1)

\* let totalTextures = 6, plus one per textured planet and moon
TotalTextures(cfg) == 6 + TexturedBodies(cfg.planets, 1)

\* the loadTextures that reports progress, as it returns: the overlay is up
LoadTexturesCounted(cfg) ==
    [textures |-> [slot \in CountedSlots(cfg) |-> LoadTexture],
     loading |-> [totalTextures |-> TotalTextures(cfg), loadedCount |-> 0,
                  overlay |-> "shown"]]

\* updateProgress: one more texture counted; the overlay starts to go once the
\* count has reached the total
UpdateProgress(l) ==
    [l EXCEPT !.loadedCount = @ + 1,
              !.overlay = IF l.loadedCount + 1 >= l.totalTextures /\ @ = "shown"
                          THEN "leaving" ELSE @]

-----------------------------------------------------------------------------
(* The render-state cache and the cached setters (js/renderer.js)          *)

ToggleUniforms ==
    {"emissive", "useTexture", "useClouds", "useSpecular", "useNormal",
     "useNight", "checkShadow", "checkPlanetShadow"}

\* the cache key renderer.js pairs with each uniform
CacheName(u) ==
    CASE u = "emissive" -> "lastEmissive"
      [] u = "useTexture" -> "lastUseTexture"
      [] u = "useClouds" -> "lastUseClouds"
      [] u = "useSpecular" -> "lastUseSpecular"
      [] u = "useNormal" -> "lastUseNormal"
      [] u = "useNight" -> "lastUseNight"
      [] u = "checkShadow" -> "lastCheckShadow"
      [] u = "checkPlanetShadow" -> "lastCheckPlanetShadow"

CacheNames == {CacheName(u) : u \in ToggleUniforms}

TextureUnits == 0..4

\* glStateCache as constructed, and the graphics state of a fresh context:
\* no texture bound, every int uniform 0, depth writes on, blending off
InitialGL ==
    [cache |-> [c \in CacheNames |-> None],
     boundTextures |-> [u \in TextureUnits |-> None],
     uniform |-> [u \in ToggleUniforms |-> 0],
     activeTexture |-> 0,
     texture2D |-> [u \in TextureUnits |-> None],
     depthMask |-> TRUE,
     blend |-> FALSE,
     scope |-> [role |-> "none", planet |-> 0],
     requested |-> [u \in ToggleUniforms |-> None],
     wanted |-> [u \in TextureUnits |-> None],
     draws |-> <<>>,
     sets |-> <<>>,
     binds |-> <<>>]

\* gl.uniform1i(location, value) on a toggle uniform of the main shader
Uniform1i(g, u, value) == [g EXCEPT !.uniform[u] = value]

SetUniform1iCachedAlways(g, u, value, cacheName) ==
    [g EXCEPT !.uniform[u] = value,
              !.requested[u] = Some(value),
              !.sets = Append(@, [fn |-> "setUniform1iCached", key |-> cacheName,
                                   value |-> Some(value),
                                   held |-> g.cache[cacheName] = Some(value),
                                   api |-> <<"uniform1i">>,
                                   after |-> g.cache[cacheName]])]

SetUniform1iCached(g, u, value, cacheName) ==
    IF g.cache[cacheName] # Some(value)
    THEN [g EXCEPT !.uniform[u] = value,
                   !.cache[cacheName] = Some(value),
                   !.requested[u] = Some(value),
                   !.sets = Append(@, [fn |-> "setUniform1iCached", key |-> cacheName,
                                        value |-> Some(value), held |-> FALSE,
                                        api |-> <<"uniform1i">>,
                                        after |-> Some(value)])]
    ELSE [g EXCEPT !.requested[u] = Some(value),
                   !.sets = Append(@, [fn |-> "setUniform1iCached", key |-> cacheName,
                                        value |-> Some(value), held |-> TRUE,
                                        api |-> <<>>,
                                        after |-> g.cache[cacheName]])]

BindTextureOptimized(g, unit, texture) ==
    IF g.boundTextures[unit] # Some(texture)
    THEN [g EXCEPT !.activeTexture = unit,
                   !.texture2D[unit] = Some(texture),
                   !.boundTextures[unit] = Some(texture),
                   !.wanted[unit] = Some(texture),
                   !.binds = Append(@, [fn |-> "bindTextureOptimized", key |-> unit,
                                        value |-> Some(texture), held |-> FALSE,
                                        api |-> <<"activeTexture", "bindTexture">>,
                                        after |-> Some(texture),
                                        bound |-> Some(texture)])]
    ELSE [g EXCEPT !.wanted[unit] = Some(texture),
                   !.binds = Append(@, [fn |-> "bindTextureOptimized", key |-> unit,
                                        value |-> Some(texture), held |-> TRUE,
                                        api |-> <<>>,
                                        after |-> g.boundTextures[unit],
                                        bound |-> g.texture2D[unit]])]

\* a draw call (drawArrays / drawElements): what it was asked to show and what
\* the toggle uniforms hold when it is issued
Draw(g, kind) ==
    [g EXCEPT !.draws = Append(@, [kind |-> kind, role |-> g.scope.role,
                                   planet |-> g.scope.planet,
                                   requested |-> g.requested,
                                   uniform |-> g.uniform,
                                   depthMask |-> g.depthMask,
                                   blend |-> g.blend,
                                   wanted |-> g.wanted,
                                   texture2D |-> g.texture2D])]

\* entering a draw function: nothing requested yet
Enter(g) == [g EXCEPT !.requested = [u \in ToggleUniforms |-> None], !.wanted = [u \in TextureUnits |-> None]]

\* the render loop turns to a body
Scope(g, role, planet) == [g EXCEPT !.scope = [role |-> role, planet |-> planet]]

\* The statements of the draw code that touch the graphics state, as data: a
\* draw function is the sequence of statements it executes.
Uniform1iCall(u, value) == [op |-> "uniform1i", u |-> u, value |-> value]
SetUniform1iCachedCall(u, value, cacheName) ==
    [op |-> "setUniform1iCached", u |-> u, value |-> value, cacheName |-> cacheName]
BindTextureOptimizedCall(unit, texture) ==
    [op |-> "bindTextureOptimized", unit |-> unit, texture |-> texture]
DrawCall(kind) == [op |-> "draw", kind |-> kind]
EnterCall == [op |-> "enter"]
ScopeCall(role, planet) == [op |-> "scope", role |-> role, planet |-> planet]
BlendCall(on) == [op |-> "blend", on |-> on]
DepthMaskCall(flag) == [op |-> "depthMask", flag |-> flag]

\* executing one statement
Issue(g, call) ==
    CASE call.op = "uniform1i" -> Uniform1i(g, call.u, call.value)
      [] call.op = "setUniform1iCached" ->
             SetUniform1iCached(g, call.u, call.value, call.cacheName)
      [] call.op = "bindTextureOptimized" ->
             BindTextureOptimized(g, call.unit, call.texture)
      [] call.op = "draw" -> Draw(g, call.kind)
      [] call.op = "enter" -> Enter(g)
      [] call.op = "scope" -> Scope(g, call.role, call.planet)
      [] call.op = "blend" -> [g EXCEPT !.blend = call.on]
      [] call.op = "depthMask" -> [g EXCEPT !.depthMask = call.flag]

Only(S) == CHOOSE x \in S : TRUE

\* executing statements lo..hi in order: the first half, then the second half
\* from the state the first half leaves
RECURSIVE Exec(_, _, _, _)
Exec(g, calls, lo, hi) ==
    IF lo > hi
    THEN g
    ELSE IF lo = hi
    THEN Issue(g, calls[lo])
    ELSE LET mid == (lo + hi) \div 2
         IN  Only({Exec(h, calls, mid + 1, hi) : h \in {Exec(g, calls, lo, mid)}})

Run(g, calls) == Only({Exec(g, c, 1, Len(c)) : c \in {calls}})

\* the graphics state with the record of the draws and calls cleared
Fresh(g) == [g EXCEPT !.draws = <<>>, !.sets = <<>>, !.binds = <<>>]

-----------------------------------------------------------------------------
(* The draw functions (js/renderer.js)                                     *)

\* renderOrbitPath: the emissive flag is written directly, past the cache
RenderOrbitPath ==
    <<EnterCall, Uniform1iCall("emissive", 1), DrawCall("orbit")>>

\* the texture branch renderRing and renderSphere share
UseTexture(texture) ==
    IF IsSome(texture)
    THEN <<BindTextureOptimizedCall(0, Get(texture)),
           SetUniform1iCachedCall("useTexture", 1, "lastUseTexture")>>
    ELSE <<SetUniform1iCachedCall("useTexture", 0, "lastUseTexture")>>

\* renderRing: emissive is written directly, useTexture through the cache
RenderRing(texture) ==
    <<EnterCall, Uniform1iCall("emissive", 0)>> \o UseTexture(texture)
        \o <<DrawCall("ring")>>

\* one of the four Earth-only texture layers of renderSphere
EarthLayer(object, texture, unit, u) ==
    IF IsSome(texture) /\ object.name = "Earth"
    THEN <<BindTextureOptimizedCall(unit, Get(texture)),
           SetUniform1iCachedCall(u, 1, CacheName(u))>>
    ELSE <<SetUniform1iCachedCall(u, 0, CacheName(u))>>

\* renderSphere: every toggle goes through the cache
RenderSphere(object, moonPos, moonRadius, texture, cloudTexture, specularTexture, normalTexture, nightTexture, planetPos, planetRadius) ==
    <<EnterCall,
      SetUniform1iCachedCall("emissive", IF object.emissive THEN 1 ELSE 0,
                             "lastEmissive"),
      SetUniform1iCachedCall("checkShadow",
                             IF IsSome(moonPos) /\ IsSome(moonRadius)
                                /\ Get(moonRadius) # Zero THEN 1 ELSE 0,
                             "lastCheckShadow"),
      SetUniform1iCachedCall("checkPlanetShadow",
                             IF IsSome(planetPos) /\ IsSome(planetRadius)
                                /\ Get(planetRadius) # Zero THEN 1 ELSE 0,
                             "lastCheckPlanetShadow")>>
        \o UseTexture(texture)
        \o EarthLayer(object, cloudTexture, 1, "useClouds")
        \o EarthLayer(object, specularTexture, 2, "useSpecular")
        \o EarthLayer(object, normalTexture, 3, "useNormal")
        \o EarthLayer(object, nightTexture, 4, "useNight")
        \o <<DrawCall("sphere")>>

\* the model matrix renderRing uploads, column-major, before the translation:
\* the fused tilt-and-spin matrix scaled by the ring's outer radius
RingMatrix(scale, axialTilt, rotationAngle) ==
    LET tilted == IsSome(axialTilt) /\ Get(axialTilt) # Zero
        tiltRad == DegToRad(Get(axialTilt))
        cosTilt == Cos(tiltRad)
        sinTilt == Sin(tiltRad)
        cosRot == Cos(rotationAngle)
        sinRot == Sin(rotationAngle)
    IN  [i \in 0..15 |->
           IF tilted
           THEN CASE i = 0 -> RMul(scale, cosRot)
                  [] i = 1 -> Zero
                  [] i = 2 -> RMul(scale, sinRot)
                  [] i = 4 -> RMul(sinRot, sinTilt)
                  [] i = 5 -> cosTilt
                  [] i = 6 -> RMul(RNeg(cosRot), sinTilt)
                  [] i = 8 -> RMul(RMul(RNeg(sinRot), cosTilt), scale)
                  [] i = 9 -> RMul(sinTilt, scale)
                  [] i = 10 -> RMul(RMul(cosRot, cosTilt), scale)
                  [] i = 15 -> One
                  [] OTHER -> Zero
           ELSE CASE i \in {0, 10} -> scale
                  [] i \in {5, 15} -> One
                  [] OTHER -> Zero]

SphereRotationSheared(axialTilt, rotationAngle) ==
    LET tiltRad == IF IsSome(axialTilt) THEN DegToRad(Get(axialTilt)) ELSE Zero
        spin == IF IsSome(axialTilt) THEN rotationAngle ELSE Zero
    IN  [i \in 0..15 |->
           CASE i = 0 -> Cos(spin)
             [] i = 2 -> Sin(spin)
             [] i = 4 -> RMul(Sin(spin), Sin(tiltRad))
             [] i = 5 -> Cos(tiltRad)
             [] i = 6 -> RMul(Cos(spin), Sin(tiltRad))
             [] i = 8 -> RMul(RNeg(Sin(spin)), Cos(tiltRad))
             [] i = 9 -> Sin(tiltRad)
             [] i = 10 -> RMul(Cos(spin), Cos(tiltRad))
             [] i = 15 -> One
             [] OTHER -> Zero]

\* renderSphere: the tilt-and-spin matrix it multiplies into the model matrix
\* (the identity when no axial tilt is passed), column-major
SphereRotation(axialTilt, rotationAngle) ==
    IF IsSome(axialTilt)
    THEN LET tiltRad == DegToRad(Get(axialTilt))
             cosTilt == Cos(tiltRad)
             sinTilt == Sin(tiltRad)
             cosRot == Cos(rotationAngle)
             sinRot == Sin(rotationAngle)
         IN  [i \in 0..15 |->
                CASE i = 0 -> cosRot
                  [] i = 2 -> sinRot
                  [] i = 4 -> RMul(sinRot, sinTilt)
                  [] i = 5 -> cosTilt
                  [] i = 6 -> RMul(RNeg(cosRot), sinTilt)
                  [] i = 8 -> RMul(RNeg(sinRot), cosTilt)
                  [] i = 9 -> sinTilt
                  [] i = 10 -> RMul(cosRot, cosTilt)
                  [] i = 15 -> One
                  [] OTHER -> Zero]
    ELSE [i \in 0..15 |-> IF i \in {0, 5, 10, 15} THEN One ELSE Zero]

\* a column-major 4x4 matrix applied to the direction (x, y, z)
Apply(m, v) ==
    V3(RAdd(RAdd(RMul(m[0], v.x), RMul(m[4], v.y)), RMul(m[8], v.z)),
       RAdd(RAdd(RMul(m[1], v.x), RMul(m[5], v.y)), RMul(m[9], v.z)),
       RAdd(RAdd(RMul(m[2], v.x), RMul(m[6], v.y)), RMul(m[10], v.z)))

VAdd(a, b) == V3(RAdd(a.x, b.x), RAdd(a.y, b.y), RAdd(a.z, b.z))
VSub(a, b) == V3(RSub(a.x, b.x), RSub(a.y, b.y), RSub(a.z, b.z))
Dot(a, b) == RAdd(RAdd(RMul(a.x, b.x), RMul(a.y, b.y)), RMul(a.z, b.z))

-----------------------------------------------------------------------------
(* Projection of a world position to the screen (project3DTo2D)            *)

\* a JavaScript number: a finite value, or Infinity, -Infinity or NaN
Finite(q) == [finite |-> TRUE, value |-> q]
NonFinite == [finite |-> FALSE, value |-> Zero]

\* a / b: no longer finite when b is 0
Divide(a, b) == IF b = Zero THEN NonFinite ELSE Finite(RDiv(a, b))

\* matrix[i + j * 4] * vector[j], summed over j = 0..3 (0-based as in the code)
Transform(matrix, vector, i) ==
    RAdd(RAdd(RMul(matrix[i + 1], vector[1]), RMul(matrix[i + 5], vector[2])),
         RAdd(RMul(matrix[i + 9], vector[3]), RMul(matrix[i + 13], vector[4])))

\* (ndc + 1) * 0.5 * size and (1 - ndc) * 0.5 * size
Screen(ndc, size, flip) ==
    IF ndc.finite
    THEN Finite(RMul(RMul(IF flip THEN RSub(One, ndc.value) ELSE RAdd(ndc.value, One),
                          Rat(1, 2)), R(size)))
    ELSE NonFinite

Project3DTo2DInclusive(x, y, z, viewMatrix, projectionMatrix, canvas) ==
    LET worldPos == <<x, y, z, One>>
        viewPos == [i \in 1..4 |-> Transform(viewMatrix, worldPos, i - 1)]
        clipPos == [i \in 1..4 |-> Transform(projectionMatrix, viewPos, i - 1)]
        ndcZ == Divide(clipPos[3], clipPos[4])
    IN  [x |-> Screen(Divide(clipPos[1], clipPos[4]), canvas.width, FALSE),
         y |-> Screen(Divide(clipPos[2], clipPos[4]), canvas.height, TRUE),
         z |-> ndcZ,
         visible |-> ndcZ.finite /\ RLe(R(-1), ndcZ.value) /\ RLe(ndcZ.value, One)]

Project3DTo2D(x, y, z, viewMatrix, projectionMatrix, canvas) ==
    LET worldPos == <<x, y, z, One>>
        viewPos == [i \in 1..4 |-> Transform(viewMatrix, worldPos, i - 1)]
        clipPos == [i \in 1..4 |-> Transform(projectionMatrix, viewPos, i - 1)]
        ndcX == Divide(clipPos[1], clipPos[4])
        ndcY == Divide(clipPos[2], clipPos[4])
        ndcZ == Divide(clipPos[3], clipPos[4])
        screenX == Screen(ndcX, canvas.width, FALSE)
        screenY == Screen(ndcY, canvas.height, TRUE)
    IN  [x |-> screenX, y |-> screenY, z |-> ndcZ,
         visible |-> ndcZ.finite /\ RLt(R(-1), ndcZ.value) /\ RLt(ndcZ.value, One)]

-----------------------------------------------------------------------------
(* The index buffers of the sphere and the ring (js/geometry.js)           *)

\* new Uint16Array(indices): an index is stored in 16 bits
Uint16(n) == n % 65536

SphereIndexSkewed(latitudeBands, longitudeBands, k) ==
    LET lat == (k \div 6) \div longitudeBands
        lon == (k \div 6) % longitudeBands
        first == lat * (longitudeBands + 1) + lon
        second == first + longitudeBands + 2
    IN  CASE k % 6 = 0 -> first
          [] k % 6 = 1 -> second
          [] k % 6 = 2 -> first + 1
          [] k % 6 = 3 -> second
          [] k % 6 = 4 -> second + 1
          [] k % 6 = 5 -> first + 1

\* the k-th index (from 0) the loops of createSphere push: six per quad,
\* the quads row by row
SphereIndex(latitudeBands, longitudeBands, k) ==
    LET lat == (k \div 6) \div longitudeBands
        lon == (k \div 6) % longitudeBands
        first == lat * (longitudeBands + 1) + lon
        second == first + longitudeBands + 1
    IN  CASE k % 6 = 0 -> first
          [] k % 6 = 1 -> second
          [] k % 6 = 2 -> first + 1
          [] k % 6 = 3 -> second
          [] k % 6 = 4 -> second + 1
          [] k % 6 = 5 -> first + 1

\* createSphere: the number of vertices its first loops push and the index
\* buffer its second loops fill
CreateSphere(radius, latitudeBands, longitudeBands) ==
    [vertexCount |-> (latitudeBands + 1) * (longitudeBands + 1),
     indices |-> [k \in 1..(6 * latitudeBands * longitudeBands) |->
                     Uint16(SphereIndex(latitudeBands, longitudeBands, k - 1))],
     indexCount |-> 6 * latitudeBands * longitudeBands]

\* the k-th index (from 0) the loop of createRing pushes: six per segment
RingIndex(segments, k) ==
    LET base == (k \div 6) * 2
    IN  CASE k % 6 = 0 -> base
          [] k % 6 = 1 -> base + 1
          [] k % 6 = 2 -> base + 2
          [] k % 6 = 3 -> base + 1
          [] k % 6 = 4 -> base + 3
          [] k % 6 = 5 -> base + 2

\* createRing: two vertices per step of i = 0..segments
CreateRing(innerRadius, outerRadius, segments) ==
    [vertexCount |-> 2 * (segments + 1),
     indices |-> [k \in 1..(6 * segments) |-> Uint16(RingIndex(segments, k - 1))],
     indexCount |-> 6 * segments]

-----------------------------------------------------------------------------
(* The shader input locations the draw functions hand to the graphics API  *)

\* gl.getAttribLocation: the index of an attribute of the program, or -1
AttribLocation(program, name) ==
    IF name \in program.attribs
    THEN CASE name = "position" -> 0 [] name = "normal" -> 1 [] name = "texCoord" -> 2
    ELSE -1

\* gl.getUniformLocation: the location of a uniform of the program, or null
UniformLocation(program, name) == IF name \in program.uniforms THEN Some(name) ELSE None

\* a graphics API call that takes an attribute index or a uniform location
AttribUse(api, program, name) ==
    [api |-> api, kind |-> "attrib", input |-> name, index |-> AttribLocation(program, name)]
UniformUse(api, program, name) ==
    [api |-> api, kind |-> "uniform", input |-> name, location |-> UniformLocation(program, name)]

\* setUniform1iCached: gl.uniform1i unless the cache holds the value
CachedUse(program, cache, u, value) ==
    IF cache[CacheName(u)] # Some(value)
    THEN <<UniformUse("uniform1i", program, u)>>
    ELSE <<>>

\* bind a vertex buffer to an attribute: enable, then pointer
PointerUses(program, name) ==
    <<AttribUse("enableVertexAttribArray", program, name),
      AttribUse("vertexAttribPointer", program, name)>>

\* disable an attribute the orbit path does not use, if the program has it
DisableUses(program, name) ==
    IF AttribLocation(program, name) # -1
    THEN <<AttribUse("disableVertexAttribArray", program, name)>>
    ELSE <<>>

OrbitPathLocationUses(program) ==
    <<UniformUse("uniformMatrix4fv", program, "model"),
      UniformUse("uniform3fv", program, "color"),
      UniformUse("uniform1i", program, "emissive")>>
        \o DisableUses(program, "normal")
        \o DisableUses(program, "texCoord")
        \o PointerUses(program, "position")

\* the texture branch renderRing and renderSphere share
TextureUses(program, cache, texture) ==
    IF IsSome(texture)
    THEN <<UniformUse("uniform1i", program, "texture")>>
             \o CachedUse(program, cache, "useTexture", 1)
    ELSE CachedUse(program, cache, "useTexture", 0)

RingLocationUses(program, cache, texture) ==
    <<UniformUse("uniformMatrix4fv", program, "model"),
      UniformUse("uniform3fv", program, "color"),
      UniformUse("uniform3fv", program, "lightPos"),
      UniformUse("uniform1i", program, "emissive")>>
        \o PointerUses(program, "position")
        \o PointerUses(program, "normal")
        \o (IF AttribLocation(program, "texCoord") # -1
            THEN PointerUses(program, "texCoord") ELSE <<>>)
        \o TextureUses(program, cache, texture)

\* one of the two shadow blocks of renderSphere
ShadowUses(program, cache, pos, radius, posName, radiusName, u) ==
    IF IsSome(pos) /\ IsSome(radius) /\ Get(radius) # Zero
    THEN <<UniformUse("uniform3fv", program, posName),
           UniformUse("uniform1f", program, radiusName)>>
             \o CachedUse(program, cache, u, 1)
    ELSE CachedUse(program, cache, u, 0)

\* one of the four Earth-only texture layers of renderSphere
LayerUses(program, cache, object, texture, sampler, u) ==
    IF IsSome(texture) /\ object.name = "Earth"
    THEN <<UniformUse("uniform1i", program, sampler)>> \o CachedUse(program, cache, u, 1)
    ELSE CachedUse(program, cache, u, 0)

SphereLocationUses(program, cache, object, moonPos, moonRadius, texture, cloudTexture, specularTexture, normalTexture, nightTexture, planetPos, planetRadius) ==
    <<UniformUse("uniformMatrix4fv", program, "model"),
      UniformUse("uniform3fv", program, "color"),
      UniformUse("uniform3fv", program, "lightPos")>>
        \o CachedUse(program, cache, "emissive", IF object.emissive THEN 1 ELSE 0)
        \o <<UniformUse("uniform1f", program, "time"),
             UniformUse("uniform1i", program, "showTerminator")>>
        \o ShadowUses(program, cache, moonPos, moonRadius, "moonPos", "moonRadius",
                      "checkShadow")
        \o ShadowUses(program, cache, planetPos, planetRadius, "planetPos",
                      "planetRadius", "checkPlanetShadow")
        \o TextureUses(program, cache, texture)
        \o LayerUses(program, cache, object, cloudTexture, "cloudTexture", "useClouds")
        \o <<UniformUse("uniform1f", program, "cloudRotation")>>
        \o LayerUses(program, cache, object, specularTexture, "specularMap", "useSpecular")
        \o LayerUses(program, cache, object, normalTexture, "normalMap", "useNormal")
        \o LayerUses(program, cache, object, nightTexture, "nightMap", "useNight")
        \o PointerUses(program, "position")
        \o PointerUses(program, "normal")
        \o PointerUses(program, "texCoord")

-----------------------------------------------------------------------------
(* The eclipse shadow of the fragment shader (fragmentShaderSource)        *)

\* the square root of a rational that is a perfect square
Sqrt(q) ==
    <<CHOOSE k \in 0..q[1] : k * k = q[1], CHOOSE k \in 1..q[2] : k * k = q[2]>>

\* GLSL length, mix and scaling of a vector
Length(v) == Sqrt(Dot(v, v))
Mix(x, y, a) == RAdd(RMul(x, RSub(One, a)), RMul(y, a))
VScale(v, k) == V3(RMul(v.x, k), RMul(v.y, k), RMul(v.z, k))

MoonShadowCheckUngated(shadow, uCheckShadow, diff, vPosition, uLightPosition, uMoonPosition, uMoonRadius) ==
    IF uCheckShadow
    THEN LET toLight == VSub(uLightPosition, vPosition)
             distToLight == Length(toLight)
             toLightDir == VScale(toLight, RDiv(One, distToLight))
             t == Dot(VSub(uMoonPosition, vPosition), toLightDir)
         IN  IF RLt(Zero, t) /\ RLt(t, distToLight)
                /\ RLt(Length(VSub(VAdd(vPosition, VScale(toLightDir, t)),
                                   uMoonPosition)), uMoonRadius)
             THEN Rat(1, 5)
             ELSE shadow
    ELSE shadow

\* the moon-occludes-planet check (solar eclipse): the multiplier it leaves
MoonShadowCheck(shadow, uCheckShadow, diff, vPosition, uLightPosition, uMoonPosition, uMoonRadius) ==
    IF uCheckShadow /\ RLt(Rat(1, 10), diff)
    THEN LET toLight == VSub(uLightPosition, vPosition)
             distToLight == Length(toLight)
             toLightDir == VScale(toLight, RDiv(One, distToLight))
             toMoon == VSub(uMoonPosition, vPosition)
             t == Dot(toMoon, toLightDir)
         IN  IF RLt(Zero, t) /\ RLt(t, distToLight)
             THEN LET closestPoint == VAdd(vPosition, VScale(toLightDir, t))
                      distToMoonCenter == Length(VSub(closestPoint, uMoonPosition))
                  IN  IF RLt(distToMoonCenter, uMoonRadius)
                      THEN Rat(1, 5)
                      ELSE shadow
             ELSE shadow
    ELSE shadow

PlanetShadowCheckWide(shadow, uCheckPlanetShadow, vPosition, uLightPosition, uPlanetPosition, uPlanetRadius) ==
    IF uCheckPlanetShadow
    THEN LET toLight == VSub(uLightPosition, vPosition)
             distToLight == Length(toLight)
             toLightDir == VScale(toLight, RDiv(One, distToLight))
             t == Dot(VSub(uPlanetPosition, vPosition), toLightDir)
         IN  IF RLt(Zero, t) /\ RLt(t, distToLight)
             THEN LET dist == Length(VSub(VAdd(vPosition, VScale(toLightDir, t)),
                                          uPlanetPosition))
                  IN  IF RLt(dist, uPlanetRadius)
                      THEN RMin(shadow, Rat(1, 10))
                      ELSE IF RLt(dist, RMul(uPlanetRadius, R(2)))
                      THEN RMin(shadow, Mix(Rat(1, 10), One,
                                            RDiv(RSub(dist, uPlanetRadius), uPlanetRadius)))
                      ELSE shadow
             ELSE shadow
    ELSE shadow

\* the planet-occludes-moon check (lunar eclipse): the multiplier it leaves
PlanetShadowCheck(shadow, uCheckPlanetShadow, vPosition, uLightPosition, uPlanetPosition, uPlanetRadius) ==
    IF uCheckPlanetShadow
    THEN LET toLight == VSub(uLightPosition, vPosition)
             distToLight == Length(toLight)
             toLightDir == VScale(toLight, RDiv(One, distToLight))
             toPlanet == VSub(uPlanetPosition, vPosition)
             t == Dot(toPlanet, toLightDir)
         IN  IF RLt(Zero, t) /\ RLt(t, distToLight)
             THEN LET closestPoint == VAdd(vPosition, VScale(toLightDir, t))
                      distToPlanetCenter == Length(VSub(closestPoint, uPlanetPosition))
                  IN  IF RLt(distToPlanetCenter, uPlanetRadius)
                      THEN RMin(shadow, Rat(1, 10))
                      ELSE IF RLt(distToPlanetCenter, RMul(uPlanetRadius, Rat(3, 2)))
                      THEN LET penumbra == RDiv(RSub(distToPlanetCenter, uPlanetRadius),
                                                RMul(uPlanetRadius, Rat(1, 2)))
                           IN  RMin(shadow, Mix(Rat(1, 10), One, penumbra))
                      ELSE shadow
             ELSE shadow
    ELSE shadow

\* float shadow = 1.0 followed by the two checks
FragmentShadow(uCheckShadow, uCheckPlanetShadow, diff, vPosition, uLightPosition, uMoonPosition, uMoonRadius, uPlanetPosition, uPlanetRadius) ==
    PlanetShadowCheck(
        MoonShadowCheck(One, uCheckShadow, diff, vPosition, uLightPosition,
                        uMoonPosition, uMoonRadius),
        uCheckPlanetShadow, vPosition, uLightPosition, uPlanetPosition, uPlanetRadius)

-----------------------------------------------------------------------------
(* Orbital placement (render loop and calculateFocusPosition)              *)

PlanetPositionMirrored(planet, t) ==
    LET angle == RAdd(RMul(RMul(t, planet.orbitSpeed), Rat(1, 10)),
                      DegToRad(planet.startAngle))
        incRad == DegToRad(planet.inclination)
        e == planet.eccentricity
        r == IF RLt(Zero, e)
             THEN RDiv(RMul(planet.orbitRadius, RSub(One, RMul(e, e))),
                       RAdd(One, RMul(e, Cos(angle))))
             ELSE planet.orbitRadius
        zFlat == RMul(r, Sin(angle))
    IN  V3(RMul(r, Cos(angle)), RMul(zFlat, Sin(incRad)), RMul(RNeg(zFlat), Cos(incRad)))

\* position of a planet at accumulated time t
PlanetPosition(planet, t) ==
    LET startAngleRad == DegToRad(planet.startAngle)
        angle == RAdd(RMul(RMul(t, planet.orbitSpeed), Rat(1, 10)), startAngleRad)
        incRad == DegToRad(planet.inclination)
        sinInc == Sin(incRad)
        cosInc == Cos(incRad)
        e == planet.eccentricity
        a == planet.orbitRadius
        r == IF RLt(Zero, e)
             THEN RDiv(RMul(a, RSub(One, RMul(e, e))),
                       RAdd(One, RMul(e, Cos(angle))))
             ELSE planet.orbitRadius
        zFlat == RMul(r, Sin(angle))
    IN  V3(RMul(r, Cos(angle)), RMul(RNeg(zFlat), sinInc), RMul(zFlat, cosInc))

OrbitPathVertexFlattened(radius, segments, eccentricity, inclination, i) ==
    LET angle == RDiv(RMul(RMul(R(i), R(2)), Pi), R(segments))
        incRad == DegToRad(inclination)
        r == IF RLt(Zero, eccentricity)
             THEN RDiv(RMul(radius, RSub(One, eccentricity)),
                       RAdd(One, RMul(eccentricity, Cos(angle))))
             ELSE radius
        zFlat == RMul(r, Sin(angle))
    IN  V3(RMul(r, Cos(angle)), RMul(RNeg(zFlat), Sin(incRad)), RMul(zFlat, Cos(incRad)))

\* createOrbitPath: vertex i of the line loop of an orbit
OrbitPathVertex(radius, segments, eccentricity, inclination, i) ==
    LET e == eccentricity
        a == radius
        incRad == DegToRad(inclination)
        sinInc == Sin(incRad)
        cosInc == Cos(incRad)
        angle == RDiv(RMul(RMul(R(i), R(2)), Pi), R(segments))
        r == IF RLt(Zero, e)
             THEN RDiv(RMul(a, RSub(One, RMul(e, e))), RAdd(One, RMul(e, Cos(angle))))
             ELSE radius
        zFlat == RMul(r, Sin(angle))
    IN  V3(RMul(r, Cos(angle)), RMul(RNeg(zFlat), sinInc), RMul(zFlat, cosInc))

\* createOrbitPath: positions, vertices 0..segments
CreateOrbitPath(radius, segments, eccentricity, inclination) ==
    [k \in 1..(segments + 1) |->
        OrbitPathVertex(radius, segments, eccentricity, inclination, k - 1)]

\* planet.rotationSpeed ? time * planet.rotationSpeed : 0
RotationAngle(body, t) ==
    IF body.rotationSpeed # Zero THEN RMul(t, body.rotationSpeed) ELSE Zero

MoonAngle(moon, t) == RMul(RMul(t, moon.orbitSpeed), Rat(1, 10))

TidalLockRotationAligned(moon, t) == MoonAngle(moon, t)

\* tidalLockRotation: the spin angle the moon is drawn with
TidalLockRotation(moon, t) == RAdd(MoonAngle(moon, t), RDiv(Pi, R(2)))

\* the tilt-and-spin matrix of the moon's renderSphere call: axial tilt 0
MoonDrawRotation(moon, t) == SphereRotation(Some(Zero), TidalLockRotation(moon, t))

\* offset of an inherit-mode moon from its parent, as the program computes it
InheritOffset(orbitRadius, moonAngle, axialTilt, rotationAngle) ==
    LET tiltRad == DegToRad(axialTilt)
        cosTilt == Cos(tiltRad)
        sinTilt == Sin(tiltRad)
        cosRot == Cos(rotationAngle)
        sinRot == Sin(rotationAngle)
        localX == RMul(orbitRadius, Cos(moonAngle))
        localY == Zero
        localZ == RMul(orbitRadius, Sin(moonAngle))
    IN  V3(RAdd(RMul(localX, cosRot), RMul(localZ, sinRot)),
           RSub(RAdd(RMul(RMul(localX, sinRot), sinTilt), RMul(localY, cosTilt)),
                RMul(RMul(localZ, cosRot), sinTilt)),
           RAdd(RAdd(RMul(RMul(RNeg(localX), sinRot), cosTilt), RMul(localY, sinTilt)),
                RMul(RMul(localZ, cosRot), cosTilt)))

\* offset of a moon from its parent: own tilt, inherited plane, or horizontal
MoonOffset(planet, moon, t) ==
    LET moonAngle == MoonAngle(moon, t)
    IN  IF IsSome(moon.orbitalTilt)
        THEN LET tiltRad == DegToRad(Get(moon.orbitalTilt))
             IN  V3(RMul(moon.orbitRadius, Cos(moonAngle)),
                    RMul(RMul(moon.orbitRadius, Sin(moonAngle)), Sin(tiltRad)),
                    RMul(RMul(moon.orbitRadius, Sin(moonAngle)), Cos(tiltRad)))
        ELSE IF IsSome(planet.axialTilt)
        THEN InheritOffset(moon.orbitRadius, moonAngle, Get(planet.axialTilt),
                           RotationAngle(planet, t))
        ELSE V3(RMul(moon.orbitRadius, Cos(moonAngle)), Zero,
                RMul(moon.orbitRadius, Sin(moonAngle)))

MoonPosition(planet, moon, t) == VAdd(PlanetPosition(planet, t), MoonOffset(planet, moon, t))

\* the same placement where the render loop finds the moon that may eclipse
\* its planet (the planet's first moon)
EclipseMoonOffset(planet, moon, t) ==
    LET moonAngle == RMul(RMul(t, moon.orbitSpeed), Rat(1, 10))
        rotationAngle == RotationAngle(planet, t)
        r == moon.orbitRadius
    IN  IF IsSome(moon.orbitalTilt)
        THEN LET tiltRad == DegToRad(Get(moon.orbitalTilt))
             IN  V3(RMul(r, Cos(moonAngle)),
                    RMul(RMul(r, Sin(moonAngle)), Sin(tiltRad)),
                    RMul(RMul(r, Sin(moonAngle)), Cos(tiltRad)))
        ELSE IF IsSome(planet.axialTilt)
        THEN LET tiltRad == DegToRad(Get(planet.axialTilt))
                 cosTilt == Cos(tiltRad)
                 sinTilt == Sin(tiltRad)
                 cosRot == Cos(rotationAngle)
                 sinRot == Sin(rotationAngle)
                 localX == RMul(r, Cos(moonAngle))
                 localY == Zero
                 localZ == RMul(r, Sin(moonAngle))
             IN  V3(RAdd(RMul(localX, cosRot), RMul(localZ, sinRot)),
                    RSub(RAdd(RMul(RMul(localX, sinRot), sinTilt),
                              RMul(localY, cosTilt)),
                         RMul(RMul(localZ, cosRot), sinTilt)),
                    RAdd(RAdd(RNeg(RMul(RMul(localX, sinRot), cosTilt)),
                              RMul(localY, sinTilt)),
                         RMul(RMul(localZ, cosRot), cosTilt)))
        ELSE V3(RMul(r, Cos(moonAngle)), Zero, RMul(r, Sin(moonAngle)))

FocusMoonOffsetTiltFirst(planet, moon, time) ==
    IF IsSome(planet.axialTilt)
    THEN InheritOffset(moon.orbitRadius, MoonAngle(moon, time),
                       Get(planet.axialTilt), RotationAngle(planet, time))
    ELSE EclipseMoonOffset(planet, moon, time)

\* the same placement in calculateFocusPosition
FocusMoonOffset(planet, moon, time) ==
    LET rotationAngle == IF planet.rotationSpeed # Zero
                         THEN RMul(time, planet.rotationSpeed)
                         ELSE Zero
        moonAngle == RMul(RMul(time, moon.orbitSpeed), Rat(1, 10))
    IN  IF IsSome(moon.orbitalTilt)
        THEN LET tiltRad == DegToRad(Get(moon.orbitalTilt))
                 baseX == RMul(moon.orbitRadius, Cos(moonAngle))
                 baseY == RMul(RMul(moon.orbitRadius, Sin(moonAngle)), Sin(tiltRad))
                 baseZ == RMul(RMul(moon.orbitRadius, Sin(moonAngle)), Cos(tiltRad))
             IN  V3(baseX, baseY, baseZ)
        ELSE IF IsSome(planet.axialTilt)
        THEN LET tiltRad == DegToRad(Get(planet.axialTilt))
                 cosTilt == Cos(tiltRad)
                 sinTilt == Sin(tiltRad)
                 cosRot == Cos(rotationAngle)
                 sinRot == Sin(rotationAngle)
                 localX == RMul(moon.orbitRadius, Cos(moonAngle))
                 localY == Zero
                 localZ == RMul(moon.orbitRadius, Sin(moonAngle))
                 transformedX == RAdd(RMul(localX, cosRot), RMul(localZ, sinRot))
                 transformedY == RSub(RAdd(RMul(RMul(localX, sinRot), sinTilt),
                                           RMul(localY, cosTilt)),
                                      RMul(RMul(localZ, cosRot), sinTilt))
                 transformedZ == RAdd(RAdd(RMul(RMul(RNeg(localX), sinRot), cosTilt),
                                           RMul(localY, sinTilt)),
                                      RMul(RMul(localZ, cosRot), cosTilt))
             IN  V3(transformedX, transformedY, transformedZ)
        ELSE V3(RMul(moon.orbitRadius, Cos(moonAngle)), Zero,
                RMul(moon.orbitRadius, Sin(moonAngle)))

-----------------------------------------------------------------------------
(* The camera and its transition (main program)                            *)

\* focus targets: -1 is the sun, 0.. a planet, "moon-p-m" a moon
FocusBody(p) == [kind |-> "body", p |-> p, m |-> -1]
FocusMoon(p, m) == [kind |-> "moon", p |-> p, m |-> m]
FocusSun == FocusBody(-1)

\* new Camera()
InitialCamera ==
    [zoom |-> R(800), pan |-> Origin, focusTarget |-> FocusSun,
     showOrbits |-> TRUE, timeScale |-> One]

\* the cameraTransition object as constructed
InitialTransition ==
    [active |-> FALSE, startZoom |-> InitialCamera.zoom,
     targetZoom |-> InitialCamera.zoom,
     startFocus |-> InitialCamera.focusTarget,
     targetFocus |-> InitialCamera.focusTarget,
     startFocusPos |-> Origin, targetFocusPos |-> Origin,
     progress |-> Zero, duration |-> Rat(3, 2)]

CalculateFocusPosition(cam, cfg, focusIndex, time) ==
    IF focusIndex = FocusSun
    THEN cam.pan
    ELSE IF focusIndex.kind = "moon"
    THEN LET planet == cfg.planets[focusIndex.p + 1]
             planetPos == PlanetPosition(planet, time)
         IN  VAdd(planetPos, FocusMoonOffset(planet, planet.moons[focusIndex.m + 1], time))
    ELSE IF focusIndex.p >= 0 /\ focusIndex.p < Len(cfg.planets)
    THEN PlanetPosition(cfg.planets[focusIndex.p + 1], time)
    ELSE cam.pan

\* the radius transitionToPlanet sizes the view by
TargetRadius(cfg, planetIndex) ==
    IF planetIndex = FocusSun
    THEN cfg.sun.radius
    ELSE IF planetIndex.kind = "moon"
    THEN cfg.planets[planetIndex.p + 1].moons[planetIndex.m + 1].radius
    ELSE cfg.planets[planetIndex.p + 1].radius

ClampedZoomAbove(targetRadius) == RMin(R(3000), RMul(targetRadius, R(8)))

\* Math.max(10, Math.min(3000, targetRadius * 8))
ClampedZoom(targetRadius) ==
    RMax(R(10), RMin(R(3000), RMul(targetRadius, R(8))))

TransitionToPlanetKeepsProgress(ct, cam, cfg, time, planetIndex) ==
    [ct EXCEPT !.active = TRUE,
               !.startZoom = cam.zoom,
               !.targetZoom = ClampedZoom(TargetRadius(cfg, planetIndex)),
               !.startFocus = cam.focusTarget,
               !.targetFocus = planetIndex,
               !.startFocusPos = CalculateFocusPosition(cam, cfg, cam.focusTarget, time),
               !.targetFocusPos = CalculateFocusPosition(cam, cfg, planetIndex, time)]

\* transitionToPlanet: the transition object it leaves behind
TransitionToPlanet(ct, cam, cfg, time, planetIndex) ==
    [ct EXCEPT !.active = TRUE,
               !.startZoom = cam.zoom,
               !.targetZoom = ClampedZoom(TargetRadius(cfg, planetIndex)),
               !.startFocus = cam.focusTarget,
               !.targetFocus = planetIndex,
               !.startFocusPos = CalculateFocusPosition(cam, cfg, cam.focusTarget, time),
               !.targetFocusPos = CalculateFocusPosition(cam, cfg, planetIndex, time),
               !.progress = Zero]

\* t < 0.5 ? 2 * t * t : 1 - Math.pow(-2 * t + 2, 2) / 2
Eased(t) ==
    IF RLt(t, Rat(1, 2))
    THEN RMul(R(2), RMul(t, t))
    ELSE LET u == RAdd(RMul(R(-2), t), R(2))
         IN  RSub(One, RDiv(RMul(u, u), R(2)))

Lerp(a, b, e) == RAdd(a, RMul(RSub(b, a), e))

AdvanceProgressUnclamped(ct, dt) == RAdd(ct.progress, RDiv(dt, ct.duration))

\* the progress a frame leaves: advanced by deltaTime / duration, snapped at 1
AdvanceProgress(ct, dt) ==
    LET p == RAdd(ct.progress, RDiv(dt, ct.duration))
    IN  IF RLe(One, p) THEN One ELSE p

UpdateTransitionStaysActive(ct, cam, dt) ==
    IF ct.active
    THEN LET p == AdvanceProgress(ct, dt)
         IN  <<[ct EXCEPT !.progress = p],
               [cam EXCEPT !.focusTarget = IF p = One THEN ct.targetFocus ELSE @,
                           !.zoom = Lerp(ct.startZoom, ct.targetZoom, Eased(p))]>>
    ELSE <<ct, cam>>

\* render, lines 930-956: the transition and the camera after the update
UpdateTransition(ct, cam, dt) ==
    IF ct.active
    THEN LET p == AdvanceProgress(ct, dt)
             done == RLe(One, RAdd(ct.progress, RDiv(dt, ct.duration)))
             ct1 == [ct EXCEPT !.progress = p,
                               !.active = IF done THEN FALSE ELSE @]
             cam1 == [cam EXCEPT !.focusTarget = IF done THEN ct.targetFocus ELSE @,
                                 !.zoom = Lerp(ct.startZoom, ct.targetZoom, Eased(p))]
         IN  <<ct1, cam1>>
    ELSE <<ct, cam>>

\* render, lines 970-1036: the focus point of the frame
FocusOfFrame(ct, cam, cfg, time) ==
    IF ct.active
    THEN LET e == Eased(ct.progress)
             target == CalculateFocusPosition(cam, cfg, ct.targetFocus, time)
         IN  V3(Lerp(ct.startFocusPos.x, target.x, e),
                Lerp(ct.startFocusPos.y, target.y, e),
                Lerp(ct.startFocusPos.z, target.z, e))
    ELSE IF cam.focusTarget.kind = "moon"
    THEN CalculateFocusPosition(cam, cfg, cam.focusTarget, time)
    ELSE IF cam.focusTarget.p >= 0 /\ cam.focusTarget.p < Len(cfg.planets)
    THEN PlanetPosition(cfg.planets[cam.focusTarget.p + 1], time)
    ELSE cam.pan

\* camera.update(), called by every frame: the Camera class defines no such
\* method; it is taken to leave the camera as it is
CameraUpdate(cam) == cam

-----------------------------------------------------------------------------
(* CME particles (main program).  A particle carries its identity and its  *)
(* life; position, velocity and size do not influence the life cycle.      *)

maxParticles == 200

SpawnIterPastCap(ps, id, i) ==
    IF Len(ps) > maxParticles
    THEN ps
    ELSE Append(ps, [id |-> id + i, life |-> One])

\* one round of spawnCME's loop: stop at the cap, else push a fresh particle
\* (once the cap stops a round it stops every later round)
SpawnIter(ps, id, i) ==
    IF Len(ps) >= maxParticles
    THEN ps
    ELSE Append(ps, [id |-> id + i, life |-> One])

\* rounds lo..hi of the loop, in order
RECURSIVE SpawnRange(_, _, _, _)
SpawnRange(ps, id, lo, hi) ==
    IF lo > hi
    THEN ps
    ELSE IF lo = hi
    THEN SpawnIter(ps, id, lo)
    ELSE LET mid == (lo + hi) \div 2
         IN  Only({SpawnRange(q, id, mid + 1, hi) : q \in {SpawnRange(ps, id, lo, mid)}})

\* spawnCME with particleCount = 20 + Math.floor(Math.random() * 30)
SpawnCME(ps, id, particleCount) == SpawnRange(ps, id, 0, particleCount - 1)

\* cmeParticles.splice(i, 1), i counted from 1
RemoveAt(ps, i) == SubSeq(ps, 1, i - 1) \o SubSeq(ps, i + 1, Len(ps))

DecayFrozen(life, dt) == life

\* life after one update
Decay(life, dt) == RSub(life, RMul(dt, Rat(3, 10)))

ExpiredBelowZero(life) == RLt(life, Zero)

\* p.life <= 0
Expired(life) == RLe(life, Zero)

\* one round of updateCMEParticles' loop, at index i
UpdateIter(ps, i, dt) ==
    LET life == Decay(ps[i].life, dt)
    IN  IF Expired(life)
        THEN RemoveAt(ps, i)
        ELSE [ps EXCEPT ![i].life = life]

\* the rounds at indices hi down to lo
RECURSIVE UpdateRange(_, _, _, _)
UpdateRange(ps, hi, lo, dt) ==
    IF hi < lo
    THEN ps
    ELSE IF hi = lo
    THEN UpdateIter(ps, hi, dt)
    ELSE LET mid == (lo + hi) \div 2
         IN  Only({UpdateRange(q, mid, lo, dt) : q \in {UpdateRange(ps, hi, mid + 1, dt)}})

\* updateCMEParticles: from the last index down to the first
UpdateCMEParticles(ps, dt) == UpdateRange(ps, Len(ps), 1, dt)

-----------------------------------------------------------------------------
(* The render loop (main program)                                          *)

\* the moons of planet number index, in order
RECURSIVE DrawMoons(_, _, _, _)
DrawMoons(planet, index, m, t) ==
    IF m > Len(planet.moons)
    THEN <<>>
    ELSE LET moon == planet.moons[m]
         IN  <<ScopeCall("moon", index)>>
                 \o RenderSphere(moon, None, None, BodyTexture(moon), None, None,
                                 None, None, Some(PlanetPosition(planet, t)),
                                 Some(planet.radius))
                 \o DrawMoons(planet, index, m + 1, t)

\* the rings of planet number index, in order
RECURSIVE DrawRings(_, _, _, _)
DrawRings(planet, index, k, tex) ==
    IF k > Len(planet.rings)
    THEN <<>>
    ELSE LET ringTexture == IF planet.name = "Saturn" THEN tex.saturnRing ELSE None
         IN  <<ScopeCall("ring", index)>> \o RenderRing(ringTexture)
                 \o DrawRings(planet, index, k + 1, tex)

\* the spot of a planet: emissive and checkShadow are written directly
DrawSpot ==
    <<EnterCall, Uniform1iCall("emissive", 0), Uniform1iCall("checkShadow", 0),
      DrawCall("spot")>>

DrawPlanetRingsFirst(planet, index, t, tex) ==
    LET hasMoon == Len(planet.moons) > 0
        moonPosition == IF hasMoon
                        THEN Some(VAdd(PlanetPosition(planet, t),
                                       EclipseMoonOffset(planet, planet.moons[1], t)))
                        ELSE None
        moonRadius == IF hasMoon THEN Some(planet.moons[1].radius) ELSE None
        earth == planet.name = "Earth"
    IN  <<ScopeCall("planet", index)>>
            \o RenderSphere(planet, moonPosition, moonRadius, BodyTexture(planet),
                            IF earth THEN tex.earthClouds ELSE None,
                            IF earth THEN tex.earthSpecular ELSE None,
                            IF earth THEN tex.earthNormal ELSE None,
                            IF earth THEN tex.earthNight ELSE None,
                            None, None)
            \o (IF planet.spot THEN <<ScopeCall("spot", index)>> \o DrawSpot ELSE <<>>)
            \o (IF planet.hasRings /\ Len(planet.rings) > 0
                THEN DrawRings(planet, index, 1, tex)
                ELSE <<>>)
            \o DrawMoons(planet, index, 1, t)

\* one round of config.planets.forEach: sphere, spot, moons, rings
DrawPlanet(planet, index, t, tex) ==
    LET hasMoon == Len(planet.moons) > 0
        moonPosition == IF hasMoon
                        THEN Some(VAdd(PlanetPosition(planet, t),
                                       EclipseMoonOffset(planet, planet.moons[1], t)))
                        ELSE None
        moonRadius == IF hasMoon THEN Some(planet.moons[1].radius) ELSE None
        earth == planet.name = "Earth"
    IN  <<ScopeCall("planet", index)>>
            \o RenderSphere(planet, moonPosition, moonRadius, BodyTexture(planet),
                            IF earth THEN tex.earthClouds ELSE None,
                            IF earth THEN tex.earthSpecular ELSE None,
                            IF earth THEN tex.earthNormal ELSE None,
                            IF earth THEN tex.earthNight ELSE None,
                            None, None)
            \o (IF planet.spot THEN <<ScopeCall("spot", index)>> \o DrawSpot ELSE <<>>)
            \o DrawMoons(planet, index, 1, t)
            \o (IF planet.hasRings /\ Len(planet.rings) > 0
                THEN DrawRings(planet, index, 1, tex)
                ELSE <<>>)

RECURSIVE DrawPlanets(_, _, _, _)
DrawPlanets(cfg, i, t, tex) ==
    IF i > Len(cfg.planets)
    THEN <<>>
    ELSE DrawPlanet(cfg.planets[i], i - 1, t, tex) \o DrawPlanets(cfg, i + 1, t, tex)

\* one orbit path per planet
RECURSIVE DrawOrbits(_, _)
DrawOrbits(cfg, i) ==
    IF i > Len(cfg.planets)
    THEN <<>>
    ELSE <<ScopeCall("orbit", i - 1)>> \o RenderOrbitPath \o DrawOrbits(cfg, i + 1)

\* the two point-sprite belts, drawn with their own shader program
DrawBelts ==
    <<ScopeCall("belt", -1), EnterCall, DrawCall("asteroid"), EnterCall,
      DrawCall("kuiper")>>

\* the sun sphere
DrawSun(cfg, tex) ==
    <<ScopeCall("sun", -1)>>
        \o RenderSphere(cfg.sun, None, None, tex.sun, None, None, None, None,
                        None, None)

DrawParticlesUnrestored(ps) ==
    IF Len(ps) > 0
    THEN <<ScopeCall("cme", -1), EnterCall, BlendCall(TRUE), DepthMaskCall(FALSE),
           DrawCall("cme")>>
    ELSE <<>>

\* the particle sprites: blended, depth writes off, both restored afterwards
DrawParticles(ps) ==
    IF Len(ps) > 0
    THEN <<ScopeCall("cme", -1), EnterCall, BlendCall(TRUE), DepthMaskCall(FALSE),
           DrawCall("cme"), DepthMaskCall(TRUE), BlendCall(FALSE)>>
    ELSE <<>>

\* everything a frame draws before the particles
DrawScene(cam, cfg, t) ==
    LET tex == Textures(cfg)
    IN  (IF cam.showOrbits THEN DrawOrbits(cfg, 1) ELSE <<>>)
            \o DrawBelts
            \o DrawSun(cfg, tex)
            \o DrawPlanets(cfg, 1, t, tex)

\* render(time): one frame.  particleCount and delay are the random draws a
\* burst takes if this frame spawns one.
Render(time, particleCount, delay) ==
    LET last == IF lastFrameTime = Zero THEN time ELSE lastFrameTime
        dt == RSub(time, last)
        acc == RAdd(accumulatedTime, RMul(dt, camera.timeScale))
        upd == UpdateTransition(cameraTransition, CameraUpdate(camera), dt)
        ct1 == upd[1]
        cam1 == upd[2]
        ct2 == IF ct1.active
               THEN [ct1 EXCEPT !.targetFocusPos =
                        CalculateFocusPosition(cam1, config, ct1.targetFocus, acc)]
               ELSE ct1
        scene == DrawScene(cam1, config, acc)
        updated == UpdateCMEParticles(cmeParticles, dt)
        spawn == RLt(nextCMETime, acc)
        ps == IF spawn THEN SpawnCME(updated, nextId, particleCount) ELSE updated
    IN  /\ lastFrameTime' = time
        /\ deltaTime' = dt
        /\ accumulatedTime' = acc
        /\ camera' = cam1
        /\ cameraTransition' = ct2
        /\ focusPoint' = FocusOfFrame(ct1, cam1, config, acc)
        /\ cmeParticles' = ps
        /\ nextId' = nextId + (Len(ps) - Len(updated))
        /\ nextCMETime' = IF spawn THEN RAdd(acc, delay) ELSE nextCMETime
        /\ gl' = Run(Fresh(gl), scene \o DrawParticles(ps))
        /\ frames' = frames + 1
        /\ lastEvent' = "render"
        /\ lastRequest' = IF IsSome(lastRequest)
                          THEN Some([Get(lastRequest) EXCEPT !.elapsed = RAdd(@, dt)])
                          ELSE None
        /\ lastBurst' = IF spawn
                        THEN Some([delay |-> delay, elapsed |-> Zero,
                                   gap |-> IF IsSome(lastBurst)
                                           THEN Some(RAdd(Get(lastBurst).elapsed, dt))
                                           ELSE None])
                        ELSE IF IsSome(lastBurst)
                        THEN Some([Get(lastBurst) EXCEPT !.elapsed = RAdd(@, dt)])
                        ELSE None
        /\ UNCHANGED <<config, textures, loading, inputs, computed>>

\* the load handler's render(0)
Start(particleCount, delay) ==
    /\ ~started
    /\ started' = TRUE
    /\ Render(Zero, particleCount, delay)

\* a requestAnimationFrame callback, d seconds after the previous frame
Frame(d, particleCount, delay) ==
    /\ started
    /\ UNCHANGED started
    /\ Render(RAdd(lastFrameTime, d), particleCount, delay)

\* the focus dropdown or a click on a body: camera.onFocusChange
FocusChange(newFocus) ==
    /\ started
    /\ cameraTransition' = TransitionToPlanet(cameraTransition, camera, config,
                                              accumulatedTime, newFocus)
    /\ inputs' = inputs + 1
    /\ lastEvent' = "focus"
    /\ lastRequest' = Some([target |-> newFocus, elapsed |-> Zero,
                            superseding |-> cameraTransition.active])
    /\ UNCHANGED <<config, textures, loading, lastBurst, camera, accumulatedTime, lastFrameTime, started, frames,
                   gl, cmeParticles, nextCMETime, nextId, focusPoint, deltaTime,
                   computed>>

\* the mouse wheel
Wheel(deltaY) ==
    /\ started
    /\ camera' = [camera EXCEPT !.zoom =
                     RMax(R(1), RMin(R(3000), RAdd(@, RMul(deltaY, Rat(1, 10)))))]
    /\ inputs' = inputs + 1
    /\ lastEvent' = "wheel"
    /\ UNCHANGED <<config, textures, loading, lastBurst, cameraTransition, accumulatedTime, lastFrameTime, started,
                   frames, gl, cmeParticles, nextCMETime, nextId, focusPoint,
                   deltaTime, lastRequest, computed>>

\* dragging with the right mouse button
Pan(deltaX, deltaY) ==
    /\ started
    /\ camera' = [camera EXCEPT !.pan =
                     V3(RAdd(@.x, RMul(deltaX, Rat(1, 10))), @.y,
                        RAdd(@.z, RMul(deltaY, Rat(1, 10))))]
    /\ inputs' = inputs + 1
    /\ lastEvent' = "pan"
    /\ UNCHANGED <<config, textures, loading, lastBurst, cameraTransition, accumulatedTime, lastFrameTime, started,
                   frames, gl, cmeParticles, nextCMETime, nextId, focusPoint,
                   deltaTime, lastRequest, computed>>

\* the show-orbits checkbox
ShowOrbits(checked) ==
    /\ started
    /\ camera' = [camera EXCEPT !.showOrbits = checked]
    /\ inputs' = inputs + 1
    /\ lastEvent' = "orbits"
    /\ UNCHANGED <<config, textures, loading, lastBurst, cameraTransition, accumulatedTime, lastFrameTime, started,
                   frames, gl, cmeParticles, nextCMETime, nextId, focusPoint,
                   deltaTime, lastRequest, computed>>

\* everything the load handler builds but the textures
Built(cfg, timeScale, firstCME) ==
    /\ config = cfg
    /\ camera = [InitialCamera EXCEPT !.timeScale = timeScale]
    /\ cameraTransition = InitialTransition
    /\ accumulatedTime = Zero
    /\ lastFrameTime = Zero
    /\ started = FALSE
    /\ frames = 0
    /\ gl = InitialGL
    /\ cmeParticles = <<>>
    /\ nextCMETime = firstCME
    /\ nextId = 1
    /\ focusPoint = Origin
    /\ deltaTime = Zero
    /\ inputs = 0
    /\ lastEvent = "load"
    /\ lastRequest = None
    /\ lastBurst = None

\* the state after the load handler has built everything, before render(0)
Constructed(cfg, timeScale, firstCME) ==
    /\ Built(cfg, timeScale, firstCME)
    /\ textures = LoadTextures(cfg)
    /\ loading = Uncounted

\* the page after its load handler has run, nothing computed yet
Loaded(cfg, timeScale, firstCME) ==
    /\ Constructed(cfg, timeScale, firstCME)
    /\ computed = [fn |-> "none"]

-----------------------------------------------------------------------------
(* Specification of the render dispatcher: any body table, frames and the  *)
(* show-orbits checkbox                                                    *)

InitRender == \E cfg \in RenderConfigs : Loaded(cfg, R(16), R(3))

StartRender == Start(20, R(5))

FrameRender == frames < MaxRenderFrames /\ Frame(Rat(1, 2), 20, R(5))

OrbitsRender == inputs < MaxInputs /\ \E b \in BOOLEAN : ShowOrbits(b)

NextRender == StartRender \/ FrameRender \/ OrbitsRender

SpecRender == InitRender /\ [][NextRender]_vars

-----------------------------------------------------------------------------
(* Specification of the draw functions of js/renderer.js on their own:     *)
(* renderOrbitPath, renderRing and renderSphere are exported and may be    *)
(* called in any order, as may the spot draw of the render loop            *)

InitDispatch == Loaded(SolarConfig, One, R(3))

Dispatch(role, calls) ==
    /\ gl' = Run(Fresh(gl), <<ScopeCall(role, -1)>> \o calls)
    /\ lastEvent' = "draw"
    /\ UNCHANGED <<config, textures, loading, lastBurst, camera, cameraTransition, accumulatedTime, lastFrameTime,
                   started, frames, cmeParticles, nextCMETime, nextId, focusPoint,
                   deltaTime, inputs, lastRequest, computed>>

CallRenderOrbitPath == Dispatch("orbit", RenderOrbitPath)

CallRenderRing ==
    \E texture \in {None, Some("saturnRing")} : Dispatch("ring", RenderRing(texture))

\* the sun, a planet with a moon, a bare planet, a moon in its planet's shadow
CallRenderSphere ==
    \/ Dispatch("sun", DrawSun(config, Textures(config)))
    \/ \E planet \in {Jupiter, Mercury} :
           Dispatch("planet",
                    RenderSphere(planet,
                                 IF Len(planet.moons) > 0 THEN Some(Origin) ELSE None,
                                 IF Len(planet.moons) > 0
                                 THEN Some(planet.moons[1].radius) ELSE None,
                                 BodyTexture(planet), None, None, None, None,
                                 None, None))
    \/ Dispatch("moon",
                RenderSphere(Io, None, None, BodyTexture(Io), None, None, None,
                             None, Some(Origin), Some(Jupiter.radius)))

CallDrawSpot == Dispatch("spot", DrawSpot)

NextDispatch ==
    CallRenderOrbitPath \/ CallRenderRing \/ CallRenderSphere \/ CallDrawSpot

SpecDispatch == InitDispatch /\ [][NextDispatch]_vars

-----------------------------------------------------------------------------
(* Specification of the particle life cycle: fast-forwarded time, frames   *)
(* that come at once, half a second or several seconds apart, small and    *)
(* large bursts, short and long pauses between bursts                      *)

ParticleConfig == [sun |-> Sun(TRUE), planets |-> <<Mercury>>]

\* Math.random() * 5 + 3
FirstCMETimes == {R(3), R(7)}
\* 20 + Math.floor(Math.random() * 30)
ParticleCounts == {49}
\* Math.random() * 8 + 5
CMEDelays == {R(5)}
\* seconds between two animation frames
ParticleDeltas == {Zero, Rat(1, 2), Rat(17, 6)}

InitParticles == \E first \in FirstCMETimes : Loaded(ParticleConfig, R(16), first)

StartParticles == Start(20, R(5))

FrameParticles ==
    /\ frames < MaxParticleFrames
    /\ \E d \in ParticleDeltas, n \in ParticleCounts, w \in CMEDelays : Frame(d, n, w)

NextParticles == StartParticles \/ FrameParticles

SpecParticles == InitParticles /\ [][NextParticles]_vars

-----------------------------------------------------------------------------
(* The URL parameters (validateURLParams and their use by the main program) *)

\* a URL value is a string, here the sequence of its characters
DigitOf(c) ==
    CASE c = "0" -> 0 [] c = "1" -> 1 [] c = "2" -> 2 [] c = "3" -> 3
      [] c = "4" -> 4 [] c = "5" -> 5 [] c = "6" -> 6 [] c = "7" -> 7
      [] c = "8" -> 8 [] c = "9" -> 9 [] OTHER -> -1

\* the number of decimal digits of s from position i on
RECURSIVE DigitsFrom(_, _)
DigitsFrom(s, i) ==
    IF i <= Len(s) /\ DigitOf(s[i]) >= 0 THEN 1 + DigitsFrom(s, i + 1) ELSE 0

\* the number the n digits of s from position i on spell
RECURSIVE DigitsValue(_, _, _)
DigitsValue(s, i, n) ==
    IF n = 0 THEN 0 ELSE DigitsValue(s, i, n - 1) * 10 + DigitOf(s[i + n - 1])

Signed(s) == Len(s) >= 1 /\ s[1] \in {"-", "+"}

\* parseInt(s): an optional sign and the leading decimal digits; NaN (None)
\* when there is none
ParseInt(s) ==
    LET start == IF Signed(s) THEN 2 ELSE 1
        n == DigitsFrom(s, start)
        sign == IF Signed(s) /\ s[1] = "-" THEN -1 ELSE 1
    IN  IF n = 0 THEN None ELSE Some(sign * DigitsValue(s, start, n))

\* parseFloat(s): an optional sign, the leading digits and a decimal fraction
\* (exponents are not drawn); NaN (None) when there is no digit
ParseFloat(s) ==
    LET start == IF Signed(s) THEN 2 ELSE 1
        n == DigitsFrom(s, start)
        dot == start + n <= Len(s) /\ s[start + n] = "."
        k == IF dot THEN DigitsFrom(s, start + n + 1) ELSE 0
        sign == IF Signed(s) /\ s[1] = "-" THEN -1 ELSE 1
    IN  IF n + k = 0
        THEN None
        ELSE Some(Rat(sign * (DigitsValue(s, start, n) * 10 ^ k
                                 + DigitsValue(s, start + n + 1, k)), 10 ^ k))

\* s.split("-")
RECURSIVE SplitFrom(_, _, _)
SplitFrom(s, i, part) ==
    IF i > Len(s)
    THEN <<part>>
    ELSE IF s[i] = "-"
    THEN <<part>> \o SplitFrom(s, i + 1, <<>>)
    ELSE SplitFrom(s, i + 1, Append(part, s[i]))

Split(s) == SplitFrom(s, 1, <<>>)

StartsWith(s, prefix) == Len(s) >= Len(prefix) /\ SubSeq(s, 1, Len(prefix)) = prefix

MoonPrefix == <<"m", "o", "o", "n", "-">>

\* a property of the validated object: not set, null, or a value
Undefined == [tag |-> "undefined"]
Null == [tag |-> "null"]
Value(v) == [tag |-> "value", v |-> v]
Given(property) == property.tag = "value"

\* the focus target a focus string or number stands for wherever it is used
\* (calculateFocusPosition and transitionToPlanet split and parse it again)
FocusOfString(focus) ==
    IF StartsWith(focus, MoonPrefix)
    THEN FocusMoon(Get(ParseInt(Split(focus)[2])), Get(ParseInt(Split(focus)[3])))
    ELSE FocusBody(Get(ParseInt(focus)))

ValidatedZoom(zoom) ==
    LET z == ParseFloat(zoom)
    IN  IF IsSome(z) /\ RLe(One, Get(z)) /\ RLe(Get(z), R(3000))
        THEN Value(Get(z))
        ELSE Null

\* the focus validateURLParams lets through: -1 to 7, or "moon-p-m" with p
\* below 8
ValidatedFocus(focus) ==
    IF StartsWith(focus, MoonPrefix)
    THEN LET parts == Split(focus)
         IN  IF Len(parts) = 3
             THEN LET pIndex == ParseInt(parts[2])
                      mIndex == ParseInt(parts[3])
                  IN  IF IsSome(pIndex) /\ IsSome(mIndex) /\ Get(pIndex) >= 0
                         /\ Get(pIndex) < 8
                      THEN Value(FocusOfString(focus))
                      ELSE Undefined
             ELSE Undefined
    ELSE LET focusNum == ParseInt(focus)
         IN  IF IsSome(focusNum) /\ Get(focusNum) >= -1 /\ Get(focusNum) <= 7
             THEN Value(FocusBody(Get(focusNum)))
             ELSE Null

\* validateURLParams, for a URL with or without a zoom and a focus parameter
ValidateURLParams(urlParams) ==
    [zoom |-> IF IsSome(urlParams.zoom) THEN ValidatedZoom(Get(urlParams.zoom))
              ELSE Undefined,
     focus |-> IF IsSome(urlParams.focus) THEN ValidatedFocus(Get(urlParams.focus))
               ELSE Undefined]

\* calculateFocusPosition reads a property of undefined: the moon branch takes
\* config.planets[p].moons[m] unchecked
ThrowsTypeError(cfg, focusIndex) ==
    /\ focusIndex.kind = "moon"
    /\ \/ focusIndex.p + 1 \notin DOMAIN cfg.planets
       \/ focusIndex.m + 1 \notin DOMAIN cfg.planets[focusIndex.p + 1].moons

\* Math.pow(3000, t) at the ends and in the middle of the slider
Pow3000(t) ==
    CASE t = Zero -> One
      [] t = Rat(1, 2) -> Rat(5477, 100)
      [] t = One -> R(3000)

\* sliderToZoom: min * (max / min) ^ ((sliderValue - 1) / 2999)
SliderToZoom(sliderValue) == Pow3000(RDiv(RSub(sliderValue, One), R(2999)))

\* the zoom slider: input event with the slider at value
ZoomSlider(value) ==
    /\ started
    /\ camera' = [camera EXCEPT !.zoom = SliderToZoom(RSub(R(3001), value))]
    /\ inputs' = inputs + 1
    /\ lastEvent' = "slider"
    /\ UNCHANGED <<config, textures, loading, lastBurst, cameraTransition, accumulatedTime, lastFrameTime, started,
                   frames, gl, cmeParticles, nextCMETime, nextId, focusPoint,
                   deltaTime, lastRequest, computed>>

PinchedZoomUnclamped(zoom, lastDistance, currentDistance) ==
    RAdd(zoom, RMul(RSub(lastDistance, currentDistance), R(2)))

\* this.zoom += zoomDelta * zoomSpeed; this.zoom = Math.max(1, Math.min(3000, ...))
PinchedZoom(zoom, lastDistance, currentDistance) ==
    RMax(One, RMin(R(3000), RAdd(zoom, RMul(RSub(lastDistance, currentDistance), R(2)))))

\* touchmove with two fingers: the fingers were lastDistance apart and are
\* currentDistance apart now, their centre moved by (panDeltaX, panDeltaY)
Pinch(lastDistance, currentDistance, panDeltaX, panDeltaY) ==
    /\ started
    /\ camera' = [camera EXCEPT
                     !.zoom = IF RLt(Zero, lastDistance)
                              THEN PinchedZoom(@, lastDistance, currentDistance)
                              ELSE @,
                     !.pan = V3(RAdd(@.x, RMul(panDeltaX, Rat(1, 10))), @.y,
                                RAdd(@.z, RMul(panDeltaY, Rat(1, 10))))]
    /\ inputs' = inputs + 1
    /\ lastEvent' = "pinch"
    /\ UNCHANGED <<config, textures, loading, lastBurst, cameraTransition, accumulatedTime, lastFrameTime, started,
                   frames, gl, cmeParticles, nextCMETime, nextId, focusPoint,
                   deltaTime, lastRequest, computed>>

-----------------------------------------------------------------------------
(* Specification of the camera transition: frames, focus requests from the *)
(* dropdown or a click, the mouse wheel and panning                        *)

InitCamera == Loaded(SolarConfig, One, R(3))

FocusTargets ==
    {FocusSun, FocusBody(0), FocusBody(1), FocusMoon(0, 0), FocusMoon(1, 0)}

\* seconds between two animation frames
CameraDeltas == {Rat(1, 2), Rat(3, 2)}

StartCamera == Start(20, R(12))

FrameCamera ==
    /\ frames < MaxCameraFrames
    /\ \E d \in CameraDeltas : Frame(d, 20, R(12))

FocusCamera == inputs < MaxInputs /\ \E f \in FocusTargets : FocusChange(f)

WheelCamera == inputs < MaxInputs /\ Wheel(R(1000))

PanCamera == inputs < MaxInputs /\ Pan(R(100), R(-50))

NextCamera == StartCamera \/ FrameCamera \/ FocusCamera \/ WheelCamera \/ PanCamera

SpecCamera == InitCamera /\ [][NextCamera]_vars

-----------------------------------------------------------------------------
(* Specification of the page load: the URL parameters are validated and    *)
(* applied, then frames run and the zoom and focus inputs arrive           *)

Chars(n) ==
    CASE n = 0 -> <<"0">> [] n = 1 -> <<"1">> [] n = 5 -> <<"5">>
      [] n = 7 -> <<"7">> [] n = 8 -> <<"8">>

MoonString(p, m) == MoonPrefix \o Chars(p) \o <<"-">> \o Chars(m)

\* focus parameters: -1, 0, 1, 7, 8, "x", "1x", and moon strings with a moon
\* that exists, a moon or planet that does not, a planet index of 8, a missing
\* moon index and a moon index that is no number
URLFocusValues ==
    {<<"-", "1">>, Chars(0), Chars(1), Chars(7), Chars(8), <<"x">>, <<"0", "x">>,
     MoonString(0, 0), MoonString(0, 5), MoonString(1, 0), MoonString(8, 0),
     MoonPrefix \o Chars(0), MoonPrefix \o Chars(0) \o <<"-", "x">>,
     MoonPrefix \o <<"-", "1", "-", "0">>}

\* zoom parameters: 0.5, 1, 3000, 3000.5, -5 and "abc"
URLZoomValues ==
    {<<"0", ".", "5">>, <<"1">>, <<"3", "0", "0", "0">>,
     <<"3", "0", "0", "0", ".", "5">>, <<"-", "5">>, <<"a", "b", "c">>}

URLs ==
    {[zoom |-> z, focus |-> f] :
        z \in {None} \cup {Some(v) : v \in URLZoomValues},
        f \in {None} \cup {Some(v) : v \in URLFocusValues}}

\* the sun, Earth and its Moon
URLConfig == [sun |-> Sun(TRUE), planets |-> <<Earth>>]

InitURL ==
    /\ Constructed(URLConfig, One, R(3))
    /\ \E urlParams \in URLs : computed = [fn |-> "url", urlParams |-> urlParams]

\* the main program between new Camera() and the first frame
ApplyURLParams ==
    /\ computed.fn = "url"
    /\ LET validParams == ValidateURLParams(computed.urlParams)
       IN  /\ camera' = [camera EXCEPT
                            !.zoom = IF Given(validParams.zoom)
                                     THEN validParams.zoom.v ELSE @,
                            !.focusTarget = IF Given(validParams.focus)
                                            THEN validParams.focus.v ELSE @]
           /\ computed' = [fn |-> "validateURLParams",
                           urlParams |-> computed.urlParams,
                           validParams |-> validParams]
    /\ lastEvent' = "url"
    /\ UNCHANGED <<config, textures, loading, lastBurst, cameraTransition, accumulatedTime,
                   lastFrameTime, started, frames, gl, cmeParticles, nextCMETime,
                   nextId, focusPoint, deltaTime, inputs, lastRequest>>

\* a frame whose focus computation throws draws nothing and requests no
\* further frame
Thrown ==
    /\ lastEvent' = "TypeError"
    /\ UNCHANGED <<config, textures, loading, lastBurst, camera, cameraTransition,
                   accumulatedTime, lastFrameTime, frames, gl, cmeParticles,
                   nextCMETime, nextId, focusPoint, deltaTime, inputs, lastRequest,
                   computed>>

StartURL ==
    /\ computed.fn = "validateURLParams"
    /\ IF ThrowsTypeError(config, camera.focusTarget)
       THEN ~started /\ started' = TRUE /\ Thrown
       ELSE Start(20, R(12))

FrameURL ==
    /\ frames < MaxURLFrames
    /\ lastEvent # "TypeError"
    /\ Frame(Rat(1, 2), 20, R(12))

URLFocusTargets == {FocusSun, FocusBody(0), FocusMoon(0, 0)}

FocusURL ==
    /\ inputs < MaxInputs
    /\ lastEvent # "TypeError"
    /\ \E f \in URLFocusTargets : FocusChange(f)

WheelURL ==
    /\ inputs < MaxInputs
    /\ lastEvent # "TypeError"
    /\ \E deltaY \in {R(-30000), R(30000)} : Wheel(deltaY)

PinchURL ==
    /\ inputs < MaxInputs
    /\ lastEvent # "TypeError"
    /\ \E currentDistance \in {R(10), R(2000)} : Pinch(R(100), currentDistance, R(10), Zero)

SliderURL ==
    /\ inputs < MaxInputs
    /\ lastEvent # "TypeError"
    /\ \E value \in {One, Rat(3001, 2), R(3000)} : ZoomSlider(value)

NextURL == ApplyURLParams \/ StartURL \/ FrameURL \/ FocusURL \/ WheelURL \/ PinchURL \/ SliderURL

SpecURL == InitURL /\ [][NextURL]_vars

-----------------------------------------------------------------------------
(* Specification of moon placement: a ringed planet of any tilt and spin   *)
(* with moons that inherit its equatorial plane, over a few frames         *)

MoonTilts == {None, Some(R(0)), Some(R(90)), Some(R(180)), Some(R(270))}
MoonSpins == {R(0), R(6)}
MoonSets == {<<Io>>, <<Titan, Io>>, <<Triton, Io>>}

MoonConfigs ==
    {[sun |-> Sun(TRUE),
      planets |-> <<[Saturn EXCEPT !.axialTilt = tilt,
                                   !.rotationSpeed = spin,
                                   !.moons = moons]>>] :
        tilt \in MoonTilts, spin \in MoonSpins, moons \in MoonSets}

\* seconds between two animation frames
MoonDeltas == {Rat(1, 6), Rat(1, 2)}

\* camera.timeScale
MoonTimeScales == {One, R(2)}

InitMoon == \E cfg \in MoonConfigs, timeScale \in MoonTimeScales : Loaded(cfg, timeScale, R(3))

StartMoon == Start(20, R(5))

FrameMoon ==
    /\ frames < MaxMoonFrames
    /\ \E d \in MoonDeltas : Frame(d, 20, R(5))

NextMoon == StartMoon \/ FrameMoon

SpecMoon == InitMoon /\ [][NextMoon]_vars

-----------------------------------------------------------------------------
(* Specification of the model matrices: renderSphere and renderRing are    *)
(* called for a body with any axial tilt, spin angle and ring size         *)

\* angles, in quarter turns: the whole ones and those 36.9 degrees further
MatrixAngles == {R(k) : k \in 0..3} \cup {Rat(100 * k + 41, 100) : k \in 0..3}

\* axial tilts, in degrees, and no tilt at all
MatrixTilts == {None} \cup {Some(RMul(R(90), a)) : a \in MatrixAngles}

RingSizes == {R(2), R(50)}

InitMatrix == Loaded(SolarConfig, One, R(3))

\* renderSphere and renderRing build their matrices for the same body
BuildMatrices ==
    \E axialTilt \in MatrixTilts, rotationAngle \in MatrixAngles, outer \in RingSizes :
        /\ computed' = [fn |-> "matrices", axialTilt |-> axialTilt,
                    rotationAngle |-> rotationAngle, outer |-> outer,
                    sphere |-> SphereRotation(axialTilt, rotationAngle),
                    ring |-> RingMatrix(outer, axialTilt, rotationAngle)]
        /\ UNCHANGED <<config, textures, loading, lastBurst, camera, cameraTransition, accumulatedTime,
                       lastFrameTime, started, frames, gl, cmeParticles, nextCMETime,
                       nextId, focusPoint, deltaTime, inputs, lastEvent, lastRequest>>

NextMatrix == BuildMatrices

SpecMatrix == InitMatrix /\ [][NextMatrix]_vars

-----------------------------------------------------------------------------
(* Specification of the orbits: a body of the table is placed at a time of *)
(* its period, and the line loop of its orbit is built                     *)

OrbitRadii == {R(10), R(20)}
OrbitSpeeds == {R(10), R(20)}
Eccentricities == {Zero, Rat(1, 4), Rat(1, 2), Rat(3, 5)}
\* degrees
StartAngles == {R(0), R(90), R(180)}
Inclinations == {R(0), Rat(369, 10), R(90)}
\* accumulatedTime * orbitSpeed * 0.1: the angle travelled since the start
TravelledAngles == MatrixAngles \cup {R(4)}
\* segments of an orbit's line loop
OrbitSegments == 4

OrbitBodies ==
    {[orbitRadius |-> a, orbitSpeed |-> w, eccentricity |-> e, startAngle |-> s, inclination |-> i] : a \in OrbitRadii, w \in OrbitSpeeds, e \in Eccentricities, s \in StartAngles, i \in Inclinations}

InitOrbit ==
    /\ Constructed(SolarConfig, One, R(3))
    /\ \E body \in OrbitBodies, travelled \in TravelledAngles :
           computed = [fn |-> "orbit", body |-> body,
                       time |-> RDiv(travelled, RMul(body.orbitSpeed, Rat(1, 10)))]

\* the frame places the body, the load handler has built its orbit path
PlaceBody ==
    /\ computed.fn = "orbit"
    /\ computed' =
           [fn |-> "position", body |-> computed.body, time |-> computed.time,
            position |-> PlanetPosition(computed.body, computed.time),
            path |-> CreateOrbitPath(computed.body.orbitRadius, OrbitSegments,
                                     computed.body.eccentricity,
                                     computed.body.inclination)]
    /\ UNCHANGED <<config, textures, loading, lastBurst, camera, cameraTransition,
                   accumulatedTime, lastFrameTime, started, frames, gl, cmeParticles,
                   nextCMETime, nextId, focusPoint, deltaTime, inputs, lastEvent,
                   lastRequest>>

NextOrbit == PlaceBody

SpecOrbit == InitOrbit /\ [][NextOrbit]_vars

-----------------------------------------------------------------------------
(* Specification of the projection: a world position is projected with a   *)
(* view and a projection matrix                                            *)

\* column-major 4x4 matrices as sequences of 16 entries
Matrix(entries) == [k \in 1..16 |-> R(entries[k])]

\* the camera at the origin, or three units back along z
ViewMatrices ==
    {Matrix(<<1, 0, 0, 0,  0, 1, 0, 0,  0, 0, 1, 0,  0, 0, 0, 1>>),
     Matrix(<<1, 0, 0, 0,  0, 1, 0, 0,  0, 0, 1, 0,  0, 0, -3, 1>>)}

\* a perspective projection with near plane 1 and far plane 3 (the depth column
\* is (0, 0, -2, -1), the last column (0, 0, -3, 0)), and the identity
ProjectionMatrices ==
    {Matrix(<<1, 0, 0, 0,  0, 1, 0, 0,  0, 0, -2, -1,  0, 0, -3, 0>>),
     Matrix(<<1, 0, 0, 0,  0, 1, 0, 0,  0, 0, 1, 0,  0, 0, 0, 1>>)}

WorldCoordinates == {R(-1), Zero, One}
WorldDepths == {Rat(k, 2) : k \in -8..8}
Canvases == {[width |-> 800, height |-> 600]}

InitProject ==
    /\ Constructed(SolarConfig, One, R(3))
    /\ \E x \in WorldCoordinates, y \in WorldCoordinates, z \in WorldDepths, viewMatrix \in ViewMatrices, projectionMatrix \in ProjectionMatrices, canvas \in Canvases :
           computed = [fn |-> "world", x |-> x, y |-> y, z |-> z,
                       viewMatrix |-> viewMatrix, projectionMatrix |-> projectionMatrix,
                       canvas |-> canvas]

\* a label position is projected
Project ==
    /\ computed.fn = "world"
    /\ computed' = [fn |-> "project3DTo2D", x |-> computed.x, y |-> computed.y,
                    z |-> computed.z, viewMatrix |-> computed.viewMatrix,
                    projectionMatrix |-> computed.projectionMatrix,
                    result |-> Project3DTo2D(computed.x, computed.y, computed.z,
                                             computed.viewMatrix,
                                             computed.projectionMatrix, computed.canvas)]
    /\ UNCHANGED <<config, textures, loading, lastBurst, camera, cameraTransition,
                   accumulatedTime, lastFrameTime, started, frames, gl, cmeParticles,
                   nextCMETime, nextId, focusPoint, deltaTime, inputs, lastEvent,
                   lastRequest>>

NextProject == Project

SpecProject == InitProject /\ [][NextProject]_vars

-----------------------------------------------------------------------------
(* Specification of the geometry: a sphere or a ring is created            *)

\* createSphere(gl, 1, 32, 32) and createRing(gl, innerRatio, 1.0, 64)
SphereBands == 32
RingSegments == 64

Tessellations ==
    {[fn |-> "sphere", latitudeBands |-> lat, longitudeBands |-> lon, segments |-> 0] :
        lat \in 1..MaxBands, lon \in 1..MaxBands}
    \cup {[fn |-> "sphere", latitudeBands |-> SphereBands,
           longitudeBands |-> SphereBands, segments |-> 0]}
    \cup {[fn |-> "ring", latitudeBands |-> 0, longitudeBands |-> 0, segments |-> n] :
             n \in (1..MaxSegments) \cup {RingSegments}}

InitGeometry ==
    /\ Constructed(SolarConfig, One, R(3))
    /\ \E t \in Tessellations : computed = t

\* the buffers of the tessellation are built
CreateGeometry ==
    /\ computed.fn \in {"sphere", "ring"}
    /\ computed' =
           IF computed.fn = "sphere"
           THEN [fn |-> "createSphere", latitudeBands |-> computed.latitudeBands,
                 longitudeBands |-> computed.longitudeBands, segments |-> 0,
                 buffers |-> CreateSphere(One, computed.latitudeBands,
                                          computed.longitudeBands)]
           ELSE [fn |-> "createRing", latitudeBands |-> 0, longitudeBands |-> 0,
                 segments |-> computed.segments,
                 buffers |-> CreateRing(Rat(1, 2), One, computed.segments)]
    /\ UNCHANGED <<config, textures, loading, lastBurst, camera, cameraTransition,
                   accumulatedTime, lastFrameTime, started, frames, gl, cmeParticles,
                   nextCMETime, nextId, focusPoint, deltaTime, inputs, lastEvent,
                   lastRequest>>

NextGeometry == CreateGeometry

SpecGeometry == InitGeometry /\ [][NextGeometry]_vars

-----------------------------------------------------------------------------
(* Specification of the texture loads: the frames run while the images of  *)
(* the textures arrive, with sides that are or are not powers of two, or   *)
(* fail to arrive                                                          *)

TextureConfig == [sun |-> Sun(TRUE), planets |-> <<Earth>>]

\* a configuration in which the sun is the one textured body
SingleTextureConfig == [sun |-> Sun(TRUE), planets |-> <<Mars>>]

TextureConfigs == {TextureConfig, SingleTextureConfig}

\* width and height of an image that arrives
ImageSizes == {<<4, 2>>, <<6, 4>>}

InitTextures == \E cfg \in TextureConfigs : Loaded(cfg, One, R(3))

StartTextures == Start(20, R(5))

FrameTextures == frames < MaxTextureFrames /\ Frame(Rat(1, 2), 20, R(5))

\* an image event of a texture whose load is under way
ImageEvent(slot, after) ==
    /\ started
    /\ textures[slot].status = "loading"
    /\ textures' = [textures EXCEPT ![slot] = after]
    /\ UNCHANGED <<config, lastBurst, camera, cameraTransition, accumulatedTime,
                   lastFrameTime, started, frames, cmeParticles, nextCMETime,
                   nextId, focusPoint, deltaTime, inputs, lastRequest, computed>>

\* image.onload: gl.bindTexture(gl.TEXTURE_2D, texture) on the unit that is
\* active, past the cache, then the upload
ImageLoad ==
    \E slot \in DOMAIN textures, size \in ImageSizes :
        /\ ImageEvent(slot, OnLoad(textures[slot], size[1], size[2]))
        /\ gl' = [gl EXCEPT !.texture2D[gl.activeTexture] = Some(slot)]
        /\ UNCHANGED loading
        /\ lastEvent' = "load"

ImageError ==
    \E slot \in DOMAIN textures :
        /\ ImageEvent(slot, OnError(textures[slot]))
        /\ UNCHANGED <<gl, loading>>
        /\ lastEvent' = "error"

NextTextures == StartTextures \/ FrameTextures \/ ImageLoad \/ ImageError

SpecTextures == InitTextures /\ [][NextTextures]_vars

-----------------------------------------------------------------------------
(* Specification of the loading overlay: loadTextures counts the textures  *)
(* it requests, and the image events count them off                        *)

Untextured(sun) == [sun EXCEPT !.texture = FALSE]

LoadingConfigs ==
    {[sun |-> sun, planets |-> planets] :
        sun \in {Sun(TRUE), Untextured(Sun(TRUE))},
        planets \in {<<Mars>>, <<Earth>>}}

InitLoading ==
    \E cfg \in LoadingConfigs :
        /\ Built(cfg, One, R(3))
        /\ textures = LoadTexturesCounted(cfg).textures
        /\ loading = LoadTexturesCounted(cfg).loading
        /\ computed = [fn |-> "none"]

StartLoading == Start(20, R(5))

\* image.onload of a texture loaded with onProgress
ImageLoadCounted ==
    \E slot \in DOMAIN textures :
        /\ ImageEvent(slot, OnLoad(textures[slot], 4, 2))
        /\ gl' = [gl EXCEPT !.texture2D[gl.activeTexture] = Some(slot)]
        /\ loading' = UpdateProgress(loading)
        /\ lastEvent' = "load"

\* image.onerror of a texture loaded with onProgress
ImageErrorCounted ==
    \E slot \in DOMAIN textures :
        /\ ImageEvent(slot, OnError(textures[slot]))
        /\ loading' = UpdateProgress(loading)
        /\ UNCHANGED gl
        /\ lastEvent' = "error"

\* the two timeouts updateProgress sets have fired: loadingDiv.remove()
OverlayRemoved ==
    /\ loading.overlay = "leaving"
    /\ loading' = [loading EXCEPT !.overlay = "removed"]
    /\ lastEvent' = "timeout"
    /\ UNCHANGED <<config, textures, lastBurst, camera, cameraTransition,
                   accumulatedTime, lastFrameTime, started, frames, gl, cmeParticles,
                   nextCMETime, nextId, focusPoint, deltaTime, inputs, lastRequest,
                   computed>>

NextLoading == StartLoading \/ ImageLoadCounted \/ ImageErrorCounted \/ OverlayRemoved

SpecLoading == InitLoading /\ [][NextLoading]_vars

-----------------------------------------------------------------------------
(* Specification of the shader inputs: the draw functions are called, in   *)
(* any order, with a shader program that may lack optional inputs          *)

AllAttribs == {"position", "normal", "texCoord"}

AllUniforms ==
    {"model", "color", "lightPos", "emissive", "time", "showTerminator", "moonPos",
     "moonRadius", "checkShadow", "planetPos", "planetRadius", "checkPlanetShadow",
     "texture", "useTexture", "cloudTexture", "useClouds", "cloudRotation",
     "specularMap", "useSpecular", "normalMap", "useNormal", "nightMap", "useNight"}

\* the attributes a program variant may lack
OptionalAttribs == {"normal", "texCoord"}

\* the groups of uniforms a program variant may lack
OptionalUniforms ==
    { {}, {"texture", "useTexture"},
      {"cloudTexture", "useClouds", "cloudRotation"},
      {"moonPos", "moonRadius", "checkShadow"},
      {"planetPos", "planetRadius", "checkPlanetShadow", "time", "showTerminator"} }

Programs ==
    {[attribs |-> AllAttribs \ a, uniforms |-> AllUniforms \ u] : a \in SUBSET OptionalAttribs, u \in OptionalUniforms}

\* the arguments of the sphere draws of a frame: Earth with its moon and its
\* layers, a bare planet, a moon in its planet's shadow
SphereDraws ==
    { [object |-> Earth, moonPos |-> Some(Origin), moonRadius |-> Some(Luna.radius),
       texture |-> BodyTexture(Earth), cloudTexture |-> Some("earthClouds"),
       specularTexture |-> Some("earthSpecular"), normalTexture |-> Some("earthNormal"),
       nightTexture |-> Some("earthNight"), planetPos |-> None, planetRadius |-> None],
      [object |-> Mercury, moonPos |-> None, moonRadius |-> None,
       texture |-> BodyTexture(Mercury), cloudTexture |-> None,
       specularTexture |-> None, normalTexture |-> None, nightTexture |-> None,
       planetPos |-> None, planetRadius |-> None],
      [object |-> Io, moonPos |-> None, moonRadius |-> None,
       texture |-> BodyTexture(Io), cloudTexture |-> None,
       specularTexture |-> None, normalTexture |-> None, nightTexture |-> None,
       planetPos |-> Some(Origin), planetRadius |-> Some(Jupiter.radius)] }

InitLocations ==
    /\ Constructed(SolarConfig, One, R(3))
    /\ \E program \in Programs : computed = [fn |-> "program", program |-> program]

\* a draw function runs with the program's locations
Located(fn, role, calls, uses) ==
    /\ gl' = Run(Fresh(gl), <<ScopeCall(role, -1)>> \o calls)
    /\ computed' = [fn |-> fn, program |-> computed.program, uses |-> uses]
    /\ lastEvent' = "draw"
    /\ UNCHANGED <<config, textures, loading, lastBurst, camera, cameraTransition, accumulatedTime, lastFrameTime,
                   started, frames, cmeParticles, nextCMETime, nextId, focusPoint,
                   deltaTime, inputs, lastRequest>>

LocatedOrbitPath ==
    Located("renderOrbitPath", "orbit", RenderOrbitPath,
            OrbitPathLocationUses(computed.program))

LocatedRing ==
    \E texture \in {None, Some("saturnRing")} :
        Located("renderRing", "ring", RenderRing(texture),
                RingLocationUses(computed.program, gl.cache, texture))

LocatedSphere ==
    \E a \in SphereDraws :
        Located("renderSphere", "planet",
                RenderSphere(a.object, a.moonPos, a.moonRadius, a.texture,
                             a.cloudTexture, a.specularTexture, a.normalTexture,
                             a.nightTexture, a.planetPos, a.planetRadius),
                SphereLocationUses(computed.program, gl.cache, a.object, a.moonPos,
                                   a.moonRadius, a.texture, a.cloudTexture,
                                   a.specularTexture, a.normalTexture, a.nightTexture,
                                   a.planetPos, a.planetRadius))

NextLocations == LocatedOrbitPath \/ LocatedRing \/ LocatedSphere

SpecLocations == InitLocations /\ [][NextLocations]_vars

-----------------------------------------------------------------------------
(* Specification of the eclipse shadow: one fragment of a lit body is      *)
(* shaded with the light at the origin and an occluder near the light ray  *)

\* unit directions from the light to the fragment, each with a unit normal
ShadowRays ==
    { [dir |-> V3(One, Zero, Zero), perp |-> V3(Zero, Zero, One)],
      [dir |-> V3(Rat(3, 5), Rat(4, 5), Zero), perp |-> V3(Rat(-4, 5), Rat(3, 5), Zero)] }

\* distance of the fragment from the light
FragmentDistance == R(10)

\* distance from the fragment, towards the light, of the foot of the
\* perpendicular from the occluder centre: behind the fragment, between
\* fragment and light, beyond the light
OccluderFeet == {R(-2), R(4), R(12)}

\* distance of the occluder centre from the light ray
OccluderOffsets == {Rat(1, 2), One, Rat(5, 4), Rat(7, 4), Rat(5, 2), R(3), R(4)}

OccluderRadii == {One, R(2)}

Occluders ==
    {[t |-> t, h |-> h, radius |-> r] : t \in OccluderFeet, h \in OccluderOffsets, r \in OccluderRadii}

\* an occluder whose centre lies on the light ray, so that it covers it
Covering == [t |-> R(4), h |-> Zero, radius |-> One]

\* the diffuse term of the fragment: near the terminator and well lit
DiffuseTerms == {Rat(1, 20), Rat(1, 10), Rat(1, 2)}

FragmentPosition(ray) == VScale(ray.dir, FragmentDistance)

OccluderPosition(ray, o) ==
    VAdd(VAdd(FragmentPosition(ray), VScale(ray.dir, RNeg(o.t))), VScale(ray.perp, o.h))

\* a fragment waits to be shaded with the uniforms renderSphere has set
InitShadow ==
    /\ Constructed(SolarConfig, One, R(3))
    /\ \E ray \in ShadowRays, diff \in DiffuseTerms, moon \in Occluders, planet \in Occluders \cup {Covering}, uCheckShadow \in BOOLEAN, uCheckPlanetShadow \in BOOLEAN :
           computed = [fn |-> "fragment", ray |-> ray, diff |-> diff, moon |-> moon,
                       planet |-> planet, uCheckShadow |-> uCheckShadow,
                       uCheckPlanetShadow |-> uCheckPlanetShadow]

\* the shader runs for the fragment
ShadeFragment ==
    /\ computed.fn = "fragment"
    /\ LET ray == computed.ray
           diff == computed.diff
           moon == computed.moon
           planet == computed.planet
           vPosition == FragmentPosition(ray)
           uMoonPosition == OccluderPosition(ray, moon)
           uPlanetPosition == OccluderPosition(ray, planet)
       IN  computed' =
               [fn |-> "shadow", ray |-> ray, diff |-> diff, moon |-> moon,
                planet |-> planet, uCheckShadow |-> computed.uCheckShadow,
                uCheckPlanetShadow |-> computed.uCheckPlanetShadow,
                moonCheck |-> MoonShadowCheck(One, TRUE, diff, vPosition, Origin,
                                              uMoonPosition, moon.radius),
                planetCheck |-> PlanetShadowCheck(One, TRUE, vPosition, Origin,
                                                  uPlanetPosition, planet.radius),
                shadow |-> FragmentShadow(computed.uCheckShadow,
                                          computed.uCheckPlanetShadow, diff, vPosition,
                                          Origin, uMoonPosition, moon.radius,
                                          uPlanetPosition, planet.radius)]
    /\ UNCHANGED <<config, textures, loading, lastBurst, camera, cameraTransition, accumulatedTime, lastFrameTime,
                   started, frames, gl, cmeParticles, nextCMETime, nextId, focusPoint,
                   deltaTime, inputs, lastEvent, lastRequest>>

NextShadow == ShadeFragment

SpecShadow == InitShadow /\ [][NextShadow]_vars

-----------------------------------------------------------------------------
(* Properties of the render dispatcher                                     *)

\* the toggles a draw asked for through the cache are the ones in effect
TogglesInEffect(d) ==
    \A u \in ToggleUniforms :
        IsSome(d.requested[u]) => d.uniform[u] = Get(d.requested[u])

\* C1: at every draw of renderSphere or renderRing, every toggle the call
\* requested through setUniform1iCached holds the requested value on the GPU,
\* whatever was drawn before.
C1_RequestedTogglesInEffect ==
    \A i \in DOMAIN gl.draws :
        gl.draws[i].kind \in {"sphere", "ring"} => TogglesInEffect(gl.draws[i])

\* a sphere was drawn lit although it asked to be emissive, or the reverse
C1_StaleEmissive ==
    \E i \in DOMAIN gl.draws :
        /\ gl.draws[i].kind = "sphere"
        /\ IsSome(gl.draws[i].requested["emissive"])
        /\ gl.draws[i].uniform["emissive"] # Get(gl.draws[i].requested["emissive"])

\* the API calls one real write consists of
WriteOf(fn) ==
    IF fn = "bindTextureOptimized"
    THEN <<"activeTexture", "bindTexture">>
    ELSE <<"uniform1i">>

\* two calls of one cached setter in a row with the same key and value, the
\* first from a cache that did not hold the value
Repeated(log, i) ==
    /\ i + 1 \in DOMAIN log
    /\ log[i].key = log[i + 1].key
    /\ log[i].value = log[i + 1].value
    /\ ~log[i].held

OnceInTotal(log, i) ==
    /\ log[i].api = WriteOf(log[i].fn)
    /\ log[i + 1].api = <<>>
    /\ log[i].after = log[i].value
    /\ log[i + 1].after = log[i].value

\* C2: the same texture bind, or the same cached uniform write, twice in a
\* row, starting from a cache that did not hold the value, makes the API
\* write exactly once in total, and the cache holds the value afterwards.
C2_RepeatedCallWritesOnce ==
    /\ \A i \in DOMAIN gl.binds : Repeated(gl.binds, i) => OnceInTotal(gl.binds, i)
    /\ \A i \in DOMAIN gl.sets : Repeated(gl.sets, i) => OnceInTotal(gl.sets, i)

C2_Witness ==
    /\ \E i \in DOMAIN gl.binds : Repeated(gl.binds, i)
    /\ \E i \in DOMAIN gl.sets : Repeated(gl.sets, i)

\* the stage of the frame a draw belongs to
Stage(d) ==
    CASE d.kind = "orbit" -> 1
      [] d.kind = "asteroid" -> 2
      [] d.kind = "kuiper" -> 3
      [] d.kind = "cme" -> 6
      [] d.role = "sun" -> 4
      [] OTHER -> 5

\* the part of a planet's round a draw belongs to
Part(d) ==
    CASE d.role = "planet" -> 1
      [] d.role = "spot" -> 2
      [] d.role = "moon" -> 3
      [] d.role = "ring" -> 4
      [] OTHER -> 0

\* draw a may come before draw b
Precedes(a, b) ==
    \/ Stage(a) < Stage(b)
    \/ /\ Stage(a) = 1
       /\ Stage(b) = 1
       /\ a.planet < b.planet
    \/ /\ Stage(a) = 5
       /\ Stage(b) = 5
       /\ \/ a.planet < b.planet
          \/ a.planet = b.planet /\ Part(a) < Part(b)
          \/ a.planet = b.planet /\ Part(a) = Part(b) /\ Part(a) \in {3, 4}

NumDraws(kind, role, planet) ==
    Cardinality({i \in DOMAIN gl.draws :
                    /\ gl.draws[i].kind = kind
                    /\ gl.draws[i].role = role
                    /\ gl.draws[i].planet = planet})

\* the draws a frame owes to planet number p of the body table
PlanetDrawn(p) ==
    LET planet == config.planets[p + 1]
    IN  /\ NumDraws("orbit", "orbit", p) = (IF camera.showOrbits THEN 1 ELSE 0)
        /\ NumDraws("sphere", "planet", p) = 1
        /\ NumDraws("spot", "spot", p) = (IF planet.spot THEN 1 ELSE 0)
        /\ NumDraws("sphere", "moon", p) = Len(planet.moons)
        /\ NumDraws("ring", "ring", p) = (IF planet.hasRings THEN Len(planet.rings) ELSE 0)

\* C8: in every frame the draws are issued in the order orbit paths (only if
\* shown), asteroid belt, Kuiper belt, sun, then per planet in table order its
\* sphere, spot, moons and rings, and the particle sprites last.
C8_DrawOrder ==
    lastEvent = "render" =>
        /\ \A i, j \in DOMAIN gl.draws :
               i < j => Precedes(gl.draws[i], gl.draws[j])
        /\ NumDraws("asteroid", "belt", -1) = 1
        /\ NumDraws("kuiper", "belt", -1) = 1
        /\ NumDraws("sphere", "sun", -1) = 1
        /\ \A p \in 0..(Len(config.planets) - 1) : PlanetDrawn(p)
        /\ NumDraws("cme", "cme", -1) = (IF Len(cmeParticles) > 0 THEN 1 ELSE 0)

C8_Witness ==
    /\ lastEvent = "render"
    /\ \E i \in DOMAIN gl.draws : gl.draws[i].kind = "orbit"
    /\ \E i \in DOMAIN gl.draws : gl.draws[i].kind = "spot"
    /\ \E i \in DOMAIN gl.draws : gl.draws[i].role = "moon"
    /\ \E i \in DOMAIN gl.draws : gl.draws[i].kind = "ring"
    /\ gl.draws[Len(gl.draws)].kind = "cme"

-----------------------------------------------------------------------------
(* Properties of the particle life cycle                                   *)

\* the step is a frame
Tick == lastEvent' = "render"

\* the frame spawned a burst
Spawned == nextCMETime' # nextCMETime

\* the particles of the new state that were there before the frame
Survivors == SelectSeq(cmeParticles', LAMBDA p : p.id < nextId)

Least(a, b) == IF a < b THEN a ELSE b

\* C5: the number of active particles never exceeds the maximum of 200, and
\* a burst that would exceed it adds only the particles that still fit.
C5_ParticleCap ==
    /\ Len(cmeParticles) <= 200
    /\ [][/\ Len(cmeParticles') <= 200
          /\ Tick /\ Spawned =>
                \E n \in ParticleCounts :
                    Len(cmeParticles') = Least(200, Len(Survivors) + n)]_vars

\* a burst was cut short by the cap: fewer fresh particles than the smallest
\* burst, and the array is full
C5_Witness ==
    /\ Len(cmeParticles) = 200
    /\ Len(SelectSeq(cmeParticles, LAMBDA p : p.life = One)) \in 1..19

\* C6: after every frame no particle with life <= 0 remains, every particle
\* there before the frame has been decayed once, and exactly those whose
\* decayed life is still positive are kept, in their order.
C6_ExpiredRemoved ==
    [][Tick =>
          LET decayed == [i \in DOMAIN cmeParticles |->
                             [cmeParticles[i] EXCEPT
                                 !.life = RSub(@, RMul(deltaTime', Rat(3, 10)))]]
          IN  /\ \A i \in DOMAIN cmeParticles' : RLt(Zero, cmeParticles'[i].life)
              /\ Survivors = SelectSeq(decayed, LAMBDA p : RLt(Zero, p.life))]_vars

\* a frame removed the oldest burst and kept a younger one
C6_Witness ==
    /\ lastEvent = "render"
    /\ Len(cmeParticles) > 0
    /\ cmeParticles[1].id > 1
    /\ RLt(cmeParticles[1].life, One)

\* the particles with the same identity before and after the step
SameParticle(i, j) == cmeParticles[i].id = cmeParticles'[j].id

\* C7 (as stated): every particle that exists before and after a frame has a
\* strictly smaller life after it, in every frame.
C7_LifeStrictlyDecreases ==
    [][Tick =>
          \A i \in DOMAIN cmeParticles, j \in DOMAIN cmeParticles' :
              SameParticle(i, j) => RLt(cmeParticles'[j].life, cmeParticles[i].life)]_vars

\* C7 (amended): the life of a particle never grows in a frame, and is
\* strictly smaller after every frame whose deltaTime is positive.
C7_LifeDecreasesWithTime ==
    [][Tick =>
          \A i \in DOMAIN cmeParticles, j \in DOMAIN cmeParticles' :
              SameParticle(i, j) =>
                  /\ RLe(cmeParticles'[j].life, cmeParticles[i].life)
                  /\ RLt(Zero, deltaTime') =>
                         RLt(cmeParticles'[j].life, cmeParticles[i].life)]_vars

\* a frame with positive deltaTime left an older particle alive
C7_Witness ==
    /\ lastEvent = "render"
    /\ RLt(Zero, deltaTime)
    /\ \E i \in DOMAIN cmeParticles : RLt(cmeParticles[i].life, One)

-----------------------------------------------------------------------------
(* Properties of the camera transition                                     *)

\* the step handles a focus-change request
Request == lastEvent' = "focus"

\* the focus point the view is at between two frames
InterpolatedFocus == FocusOfFrame(cameraTransition, camera, config, accumulatedTime)

\* C3: a focus change requested while a transition is still under way starts
\* the new transition from the camera's current interpolated zoom and its
\* current interpolated focus position.
C3_RetargetStartsFromCurrentView ==
    [][Request /\ cameraTransition.active =>
          /\ cameraTransition'.startZoom = camera.zoom
          /\ cameraTransition'.startFocusPos = InterpolatedFocus]_vars

\* a retargeted transition that starts away from where the view was
C3_Jump ==
    /\ lastEvent = "focus"
    /\ cameraTransition.startFocusPos # focusPoint

\* the radius of a focus target, from the body table
RadiusOf(f) ==
    IF f.p = -1
    THEN config.sun.radius
    ELSE IF f.kind = "moon"
    THEN config.planets[f.p + 1].moons[f.m + 1].radius
    ELSE config.planets[f.p + 1].radius

\* 8 times the radius, kept within [10, 3000]
ZoomFor(f) ==
    LET z == RMul(R(8), RadiusOf(f))
    IN  IF RLt(z, R(10)) THEN R(10) ELSE IF RLt(R(3000), z) THEN R(3000) ELSE z

\* where a body is at accumulated time t; the sun is drawn at the origin
BodyPosition(f, t) ==
    IF f.p = -1
    THEN Origin
    ELSE IF f.kind = "moon"
    THEN MoonPosition(config.planets[f.p + 1], config.planets[f.p + 1].moons[f.m + 1], t)
    ELSE PlanetPosition(config.planets[f.p + 1], t)

\* the frame in which the progress of an active transition reaches 1
Completing ==
    /\ Tick
    /\ cameraTransition.active
    /\ RLe(One, RAdd(cameraTransition.progress, RDiv(deltaTime', Rat(3, 2))))

\* what the completing frame does to the transition and the camera
Snapped ==
    /\ cameraTransition'.progress = One
    /\ ~cameraTransition'.active
    /\ camera'.focusTarget = cameraTransition.targetFocus
    /\ camera'.zoom = cameraTransition.targetZoom

-----------------------------------------------------------------------------
(* Properties of moon placement                                            *)

\* the moons of planet p that take the parent's equatorial plane
InheritMoons(p) ==
    {m \in 1..Len(config.planets[p].moons) :
        /\ ~IsSome(config.planets[p].moons[m].orbitalTilt)
        /\ IsSome(config.planets[p].axialTilt)}

\* the matrix the frame uploads for the rings of planet p, without the scale
RingPlane(p) ==
    RingMatrix(One, config.planets[p].axialTilt,
               RotationAngle(config.planets[p], accumulatedTime))

\* the point (r cos a, 0, r sin a) of moon m's flat orbit in this frame
FlatPoint(p, m) ==
    LET moon == config.planets[p].moons[m]
        a == MoonAngle(moon, accumulatedTime)
    IN  V3(RMul(moon.orbitRadius, Cos(a)), Zero, RMul(moon.orbitRadius, Sin(a)))

\* where the frame puts moon m, relative to its planet
PlacedOffset(p, m) ==
    MoonOffset(config.planets[p], config.planets[p].moons[m], accumulatedTime)

\* C4: in every frame, the offset of an inherit-mode moon from its planet is
\* the planet's ring matrix applied to the moon's flat orbit point, and the
\* moon lies in the plane of the rings (its offset is orthogonal to the image
\* of the ring's normal).
C4_MoonInRingPlane ==
    lastEvent = "render" =>
        \A p \in 1..Len(config.planets) : \A m \in InheritMoons(p) :
            /\ PlacedOffset(p, m) = Apply(RingPlane(p), FlatPoint(p, m))
            /\ Dot(PlacedOffset(p, m), Apply(RingPlane(p), V3(Zero, One, Zero))) = Zero

\* a frame in which an inherit-mode moon is off the plane of the rings
C4_OffPlane ==
    /\ lastEvent = "render"
    /\ \E p \in 1..Len(config.planets) : \E m \in InheritMoons(p) :
          Dot(PlacedOffset(p, m), Apply(RingPlane(p), V3(Zero, One, Zero))) # Zero

-----------------------------------------------------------------------------
(* Properties of superseded transitions and of the transition's progress   *)

\* the fixed duration of a transition, in seconds
FixedDuration == Rat(3, 2)

\* the deltaTime summed since the last request has reached the duration
Due(req) == IsSome(req) /\ RLe(FixedDuration, Get(req).elapsed)

\* C11: once the deltaTime summed since the last focus-change request reaches
\* 1.5 s the transition is inactive and camera.focusTarget is the target of
\* that last request; camera.focusTarget changes in no other way, so a
\* superseded target never becomes camera.focusTarget.
C11_LastRequestWins ==
    [][/\ Due(lastRequest') =>
              /\ ~cameraTransition'.active
              /\ camera'.focusTarget = Get(lastRequest').target
       /\ camera'.focusTarget # camera.focusTarget =>
              /\ Tick
              /\ Due(lastRequest')
              /\ camera'.focusTarget = Get(lastRequest).target]_vars

\* a request made in mid-transition has completed; the body it superseded
\* was another one
C11_Witness ==
    /\ lastEvent = "render"
    /\ IsSome(lastRequest)
    /\ Get(lastRequest).superseding
    /\ ~cameraTransition.active
    /\ camera.focusTarget = Get(lastRequest).target
    /\ camera.focusTarget # FocusSun

\* C12: in every state (so at the end of every frame) the transition's
\* progress lies in [0, 1], and the transition is active only while its
\* progress is below 1.
C12_ProgressInRange ==
    /\ RLe(Zero, cameraTransition.progress)
    /\ RLe(cameraTransition.progress, One)
    /\ cameraTransition.active => RLt(cameraTransition.progress, One)

\* a frame of 1.5 s has taken the progress from 1/3 past 1: it was cut to 1
\* and the transition was deactivated
C12_Witness ==
    /\ lastEvent = "render"
    /\ IsSome(lastRequest)
    /\ Get(lastRequest).elapsed = R(2)
    /\ deltaTime = Rat(3, 2)
    /\ cameraTransition.progress = One
    /\ ~cameraTransition.active

-----------------------------------------------------------------------------
(* Properties of the moon placement modes                                  *)

\* the three placements of a moon with orbit radius r at orbit angle a
OwnCircle(moon, a) ==
    LET tilt == DegToRad(Get(moon.orbitalTilt))
    IN  V3(RMul(moon.orbitRadius, Cos(a)),
           RMul(RMul(moon.orbitRadius, Sin(a)), Sin(tilt)),
           RMul(RMul(moon.orbitRadius, Sin(a)), Cos(tilt)))

ParentPlane(planet, moon, a, t) ==
    InheritOffset(moon.orbitRadius, a, Get(planet.axialTilt), RotationAngle(planet, t))

Ecliptic(moon, a) ==
    V3(RMul(moon.orbitRadius, Cos(a)), Zero, RMul(moon.orbitRadius, Sin(a)))

\* the one placement the populated fields select
Placement(planet, moon, t) ==
    LET a == MoonAngle(moon, t)
    IN  IF IsSome(moon.orbitalTilt)
        THEN OwnCircle(moon, a)
        ELSE IF IsSome(planet.axialTilt)
        THEN ParentPlane(planet, moon, a, t)
        ELSE Ecliptic(moon, a)

\* C13: in every frame each moon is placed by the one mode its populated
\* fields select (own orbitalTilt, else the parent's axialTilt, else the
\* ecliptic), and the moon draw, the camera focus position and (for the first
\* moon) the eclipse occluder all compute that same placement.
C13_OneModePerMoon ==
    lastEvent = "render" =>
        \A p \in 1..Len(config.planets) : \A m \in 1..Len(config.planets[p].moons) :
            LET planet == config.planets[p]
                moon == planet.moons[m]
                placed == Placement(planet, moon, accumulatedTime)
            IN  /\ MoonOffset(planet, moon, accumulatedTime) = placed
                /\ FocusMoonOffset(planet, moon, accumulatedTime) = placed
                /\ m = 1 => EclipseMoonOffset(planet, moon, accumulatedTime) = placed

\* a frame in which a first moon has both an orbital tilt of its own and a
\* tilted parent, and the three modes would put it at three different places
C13_Witness ==
    /\ lastEvent = "render"
    /\ Len(config.planets[1].moons) > 0
    /\ LET planet == config.planets[1]
           moon == planet.moons[1]
           a == MoonAngle(moon, accumulatedTime)
       IN  /\ IsSome(moon.orbitalTilt)
           /\ IsSome(planet.axialTilt)
           /\ OwnCircle(moon, a) # ParentPlane(planet, moon, a, accumulatedTime)
           /\ OwnCircle(moon, a) # Ecliptic(moon, a)
           /\ ParentPlane(planet, moon, a, accumulatedTime) # Ecliptic(moon, a)

-----------------------------------------------------------------------------
(* Properties of the model matrices                                        *)

\* column c (0, 1 or 2) of the rotation part of a column-major matrix
Column(m, c) == V3(m[4 * c], m[4 * c + 1], m[4 * c + 2])

Scaled(v, k) == V3(RMul(v.x, k), RMul(v.y, k), RMul(v.z, k))

\* C14: for every axial tilt (0 and absent included) and every spin angle the
\* rotation part of renderRing's matrix is renderSphere's tilt-and-spin block
\* with the x and z columns scaled by the ring's outer radius.
C14_RingSharesTiltAndSpin ==
    computed.fn = "matrices" =>
        /\ Column(computed.ring, 0) = Scaled(Column(computed.sphere, 0), computed.outer)
        /\ Column(computed.ring, 1) = Column(computed.sphere, 1)
        /\ Column(computed.ring, 2) = Scaled(Column(computed.sphere, 2), computed.outer)

\* a body with axial tilt 0 that has spun: the ring's matrix lacks the spin
C14_RingWithoutSpin ==
    /\ computed.fn = "matrices"
    /\ computed.axialTilt = Some(Zero)
    /\ computed.rotationAngle = Rat(41, 100)
    /\ Column(computed.ring, 0) = V3(computed.outer, Zero, Zero)
    /\ Column(computed.sphere, 0) = V3(Rat(4, 5), Zero, Rat(3, 5))

\* C20: for every tilt angle and spin angle the tilt-and-spin block of
\* renderSphere is orthonormal: every column has unit length and every two
\* distinct columns are perpendicular.
C20_SphereRotationOrthonormal ==
    computed.fn = "matrices" =>
        \A c, d \in 0..2 :
            Dot(Column(computed.sphere, c), Column(computed.sphere, d))
                = IF c = d THEN One ELSE Zero

\* a block built for a tilt and a spin that are both away from the axes
C20_Witness ==
    /\ computed.fn = "matrices"
    /\ computed.axialTilt = Some(Rat(369, 10))
    /\ computed.rotationAngle = Rat(141, 100)
    /\ Column(computed.sphere, 1) = V3(Rat(12, 25), Rat(4, 5), Rat(9, 25))

-----------------------------------------------------------------------------
(* Properties of the eclipse shadow                                        *)

\* the distance, squared, from an occluder centre to the nearest point of
\* the segment from the fragment to the light
ClosestApproachSq(o) ==
    IF RLt(o.t, Zero) THEN RAdd(RMul(o.t, o.t), RMul(o.h, o.h))
    ELSE IF RLt(FragmentDistance, o.t)
    THEN RAdd(RMul(RSub(o.t, FragmentDistance), RSub(o.t, FragmentDistance)), RMul(o.h, o.h))
    ELSE RMul(o.h, o.h)

Beyond(o, k) == RLt(RMul(RMul(k, o.radius), RMul(k, o.radius)), ClosestApproachSq(o))
Within(o) == RLt(ClosestApproachSq(o), RMul(o.radius, o.radius))

\* the occluder's nearest point on the light ray lies strictly between the
\* fragment and the light
Between(o) == RLt(Zero, o.t) /\ RLt(o.t, FragmentDistance)

MoonUmbra == Rat(1, 5)
PlanetUmbra == Rat(1, 10)

C16_ChecksAgree ==
    computed.fn = "shadow" /\ computed.moon = computed.planet
        => computed.moonCheck = computed.planetCheck

\* C16 amended: the two checks share the between condition and the distance
\* from the ray; the moon check yields 0.2 inside the radius on fragments
\* whose diffuse term exceeds 0.1 and 1.0 otherwise, the planet check yields
\* 0.1 inside the radius, a linear ramp from 0.1 to 1.0 up to 1.5 times the
\* radius and 1.0 otherwise, and the fragment gets the smaller of the checks
\* that are switched on
C16_ChecksShareGeometry ==
    computed.fn = "shadow" =>
        LET m == computed.moon
            p == computed.planet
            moonExpected ==
                IF RLt(Rat(1, 10), computed.diff) /\ Between(m) /\ RLt(m.h, m.radius)
                THEN MoonUmbra ELSE One
            planetExpected ==
                IF Between(p) /\ RLt(p.h, p.radius) THEN PlanetUmbra
                ELSE IF Between(p) /\ RLt(p.h, RMul(p.radius, Rat(3, 2)))
                THEN RAdd(PlanetUmbra,
                          RMul(Rat(9, 10), RDiv(RSub(p.h, p.radius), RMul(p.radius, Rat(1, 2)))))
                ELSE One
        IN  /\ computed.moonCheck = moonExpected
            /\ computed.planetCheck = planetExpected
            /\ computed.shadow =
                   RMin(IF computed.uCheckShadow THEN moonExpected ELSE One,
                        IF computed.uCheckPlanetShadow THEN planetExpected ELSE One)

\* the same occluder for both checks, inside its radius of the ray, on a
\* lit fragment: the moon check leaves 0.2 and the planet check 0.1
C16_Witness ==
    /\ computed.fn = "shadow"
    /\ computed.moon = computed.planet
    /\ computed.diff = Rat(1, 2)
    /\ Between(computed.moon) /\ Within(computed.moon)
    /\ computed.moonCheck = MoonUmbra
    /\ computed.planetCheck = PlanetUmbra

-----------------------------------------------------------------------------
(* Properties of the shader input locations                                *)

\* the location handed to the call exists in the program
Exists(use) ==
    IF use.kind = "attrib" THEN use.index # -1 ELSE IsSome(use.location)

\* the inputs the sentence calls optional
OptionalInputs ==
    OptionalAttribs \cup (AllUniforms \ {"model", "color", "lightPos", "emissive"})

\* C17 as stated: renderSphere, renderRing and renderOrbitPath hand the
\* location of an optional shader input to the graphics API only when the
\* program has that input
C17_OptionalInputsChecked ==
    computed.fn \in {"renderSphere", "renderRing", "renderOrbitPath"} =>
        \A i \in 1..Len(computed.uses) :
            computed.uses[i].input \in OptionalInputs => Exists(computed.uses[i])

\* renderSphere enables the vertex array of a texture coordinate attribute
\* that the program does not have
C17_AbsentInputPassed ==
    /\ computed.fn = "renderSphere"
    /\ "texCoord" \notin computed.program.attribs
    /\ \E i \in 1..Len(computed.uses) :
           /\ computed.uses[i].api = "enableVertexAttribArray"
           /\ computed.uses[i].input = "texCoord"
           /\ computed.uses[i].index = -1

-----------------------------------------------------------------------------
(* Properties of the texture loads                                         *)

\* the texture can be sampled: it has pixels, its mipmap chain is whole if
\* its filter needs one, and a side that is no power of two comes with
\* clamping and a filter without mipmaps
Bindable(t) ==
    /\ t.pixels # "none" /\ t.width > 0 /\ t.height > 0
    /\ t.minFilter = "NEAREST_MIPMAP_LINEAR"
           => t.mipmaps \/ (t.width = 1 /\ t.height = 1)
    /\ ~(IsPowerOf2(t.width) /\ IsPowerOf2(t.height))
           => t.wrap = "CLAMP_TO_EDGE" /\ t.minFilter = "LINEAR"

HoldsPlaceholder(t) == t.pixels = "placeholder" /\ t.width = 1 /\ t.height = 1

\* every texture can be sampled, and holds the placeholder unless its image
\* has arrived
TexturesUsable(table) ==
    \A slot \in DOMAIN table :
        /\ Bindable(table[slot])
        /\ table[slot].status # "loaded" => HoldsPlaceholder(table[slot])

\* C18: loadTexture returns a texture that can be sampled and holds the 1x1
\* placeholder; a failed load leaves the rest of the program alone, the
\* texture keeps the placeholder from then on and stays usable in every load
\* state, and the render loop keeps scheduling frames
C18_FailedLoadKeepsPlaceholder ==
    [][/\ TexturesUsable(textures) /\ TexturesUsable(textures')
       /\ \A slot \in DOMAIN textures :
              textures[slot].status = "failed" => textures'[slot] = textures[slot]
       /\ lastEvent' = "error" =>
              /\ started' = started /\ frames' = frames
              /\ camera' = camera /\ gl' = gl
       /\ started => started']_vars

\* a frame has been drawn after the image of the sun's texture failed to
\* load, and the texture still holds the placeholder
C18_Witness ==
    /\ textures["sun"].status = "failed"
    /\ textures["sun"].warnings = 1
    /\ HoldsPlaceholder(textures["sun"])
    /\ lastEvent = "render"
    /\ frames = MaxTextureFrames

-----------------------------------------------------------------------------
(* Properties of the burst timer                                           *)

\* the tick spawns a burst: the timer is re-armed
Burst == Tick /\ nextCMETime' # nextCMETime

\* seconds of frame time from the last burst to the end of the tick
Waited == RAdd(Get(lastBurst).elapsed, deltaTime')

\* C19 as stated, in seconds of frame time: a burst re-arms the timer with a
\* delay between 5 and 13 seconds, no burst comes before the armed delay has
\* passed since the last one, and the first tick after it has passed spawns
C19_BurstsSecondsApart ==
    [][Tick =>
          /\ Burst => /\ RLe(R(5), RSub(nextCMETime', accumulatedTime'))
                      /\ RLe(RSub(nextCMETime', accumulatedTime'), R(13))
          /\ IsSome(lastBurst) /\ Burst => RLe(Get(lastBurst).delay, Waited)
          /\ IsSome(lastBurst) /\ RLt(Get(lastBurst).delay, Waited) => Burst]_vars

\* two bursts less than five seconds of frame time apart
C19_BurstsTooClose ==
    /\ IsSome(lastBurst)
    /\ IsSome(Get(lastBurst).gap)
    /\ RLt(Get(Get(lastBurst).gap), R(5))
    /\ Get(lastBurst).elapsed = Zero
    /\ lastEvent = "render"

-----------------------------------------------------------------------------
(* Properties of the orbits                                                *)

\* 2 pi / (angularSpeed * 0.1)
Period(body) == RDiv(RMul(R(2), Pi), RMul(body.orbitSpeed, Rat(1, 10)))

\* the body of the scenario: radius 10, circular, speed 10, no start angle,
\* no inclination
ScenarioBody ==
    [orbitRadius |-> R(10), orbitSpeed |-> R(10), eccentricity |-> Zero,
     startAngle |-> R(0), inclination |-> R(0)]

\* C21: the scenario body is at (10, 0, 0) at time 0 and at (0, 0, 10) after
\* a quarter of its period
C21_QuarterPeriodScenario ==
    computed.fn = "position" /\ computed.body = ScenarioBody =>
        /\ computed.time = Zero => computed.position = V3(R(10), Zero, Zero)
        /\ computed.time = RDiv(Period(ScenarioBody), R(4))
               => computed.position = V3(Zero, Zero, R(10))

C21_Witness ==
    /\ computed.fn = "position"
    /\ computed.body = ScenarioBody
    /\ computed.time = RDiv(Period(ScenarioBody), R(4))
    /\ computed.position = V3(Zero, Zero, R(10))

\* the orbit angle of the placed body
OrbitAngle(body, time) ==
    RAdd(RMul(RMul(time, body.orbitSpeed), Rat(1, 10)), DegToRad(body.startAngle))

\* the sum of two rationals over their least common denominator
Sum(a, b) ==
    LET g == GCD(a[2], b[2])
    IN  Rat(a[1] * (b[2] \div g) + b[1] * (a[2] \div g), (a[2] \div g) * b[2])

DistanceSq(v) == Sum(Sum(RMul(v.y, v.y), RMul(v.z, v.z)), RMul(v.x, v.x))
Sq(q) == RMul(q, q)
Periapsis(body) == RMul(body.orbitRadius, RSub(One, body.eccentricity))
Apoapsis(body) == RMul(body.orbitRadius, RAdd(One, body.eccentricity))
WithinApsides(body, v) ==
    /\ RLe(Sq(Periapsis(body)), DistanceSq(v))
    /\ RLe(DistanceSq(v), Sq(Apoapsis(body)))

\* C22: an eccentric body is a(1 - e) from its parent at orbit angle 0,
\* a(1 + e) at orbit angle pi, and between the two at every orbit angle and
\* inclination; so is every vertex of its orbit path
C22_DistanceBetweenApsides ==
    computed.fn = "position" /\ RLt(Zero, computed.body.eccentricity) =>
        LET body == computed.body
            angle == OrbitAngle(body, computed.time)
        IN  /\ WithinApsides(body, computed.position)
            /\ Cos(angle) = One /\ Sin(angle) = Zero
                   => DistanceSq(computed.position) = Sq(Periapsis(body))
            /\ Cos(angle) = R(-1)
                   => DistanceSq(computed.position) = Sq(Apoapsis(body))
            /\ \A k \in 1..Len(computed.path) : WithinApsides(body, computed.path[k])
            /\ DistanceSq(computed.path[1]) = Sq(Periapsis(body))
            /\ DistanceSq(computed.path[1 + OrbitSegments \div 2]) = Sq(Apoapsis(body))

\* an inclined eccentric body at its apoapsis
C22_Witness ==
    /\ computed.fn = "position"
    /\ computed.body.eccentricity = Rat(1, 2)
    /\ computed.body.orbitRadius = R(20)
    /\ computed.body.inclination = Rat(369, 10)
    /\ Cos(OrbitAngle(computed.body, computed.time)) = R(-1)
    /\ DistanceSq(computed.position) = Sq(R(30))

-----------------------------------------------------------------------------
(* Properties of the tidal lock                                            *)

\* C23: in every frame, whatever the time scale and the placement mode, each
\* moon is drawn with a spin angle of its orbit angle plus pi/2, and with no
\* tilt: the matrix of the draw is the rotation about the y axis by that angle
C23_TidalLockAngle ==
    lastEvent = "render" =>
        \A p \in 1..Len(config.planets) : \A m \in 1..Len(config.planets[p].moons) :
            LET moon == config.planets[p].moons[m]
                orbitAngle == RMul(RMul(accumulatedTime, moon.orbitSpeed), Rat(1, 10))
                locked == RAdd(orbitAngle, RDiv(Pi, R(2)))
                drawn == MoonDrawRotation(moon, accumulatedTime)
            IN  /\ TidalLockRotation(moon, accumulatedTime) = locked
                /\ Column(drawn, 0) = V3(Cos(locked), Zero, Sin(locked))
                /\ Column(drawn, 1) = V3(Zero, One, Zero)
                /\ Column(drawn, 2) = V3(RNeg(Sin(locked)), Zero, Cos(locked))

\* a frame at twice the speed of time with a moon of its own orbital tilt and
\* a moon in its parent's plane, half a turn along their orbits
C23_Witness ==
    /\ lastEvent = "render"
    /\ camera.timeScale = R(2)
    /\ Len(config.planets[1].moons) = 2
    /\ IsSome(config.planets[1].moons[1].orbitalTilt)
    /\ ~IsSome(config.planets[1].moons[2].orbitalTilt)
    /\ MoonAngle(config.planets[1].moons[1], accumulatedTime) = R(2)
    /\ TidalLockRotation(config.planets[1].moons[2], accumulatedTime) = R(3)

-----------------------------------------------------------------------------
(* Properties of the projection                                            *)

\* clip z and clip w of the projected position, row by row
ClipRow(row) ==
    LET world == <<computed.x, computed.y, computed.z, One>>
        Row(m, r, v) ==
            Sum(Sum(RMul(m[r], v[1]), RMul(m[r + 4], v[2])),
                Sum(RMul(m[r + 8], v[3]), RMul(m[r + 12], v[4])))
        view == [r \in 1..4 |-> Row(computed.viewMatrix, r, world)]
    IN  Row(computed.projectionMatrix, row, view)

\* C24: the projected position is visible exactly when clip z divided by
\* clip w is strictly between -1 and 1; a depth of exactly -1 or 1 is not
C24_VisibleStrictlyInside ==
    computed.fn = "project3DTo2D" =>
        LET clipZ == ClipRow(3)
            clipW == ClipRow(4)
            inside == /\ clipW # Zero
                      /\ RLt(R(-1), RDiv(clipZ, clipW))
                      /\ RLt(RDiv(clipZ, clipW), One)
        IN  /\ computed.result.visible <=> inside
            /\ clipW # Zero => computed.result.z = Finite(RDiv(clipZ, clipW))

\* a position exactly on the far plane of the perspective projection
C24_Witness ==
    /\ computed.fn = "project3DTo2D"
    /\ computed.result.z = Finite(One)
    /\ ~computed.result.visible
    /\ ClipRow(4) = R(3)

-----------------------------------------------------------------------------
(* Properties of the texture units                                         *)

\* the draw samples, on every unit it asked a texture for, that texture
SamplesWanted(draw) ==
    \A unit \in TextureUnits :
        IsSome(draw.wanted[unit]) => draw.texture2D[unit] = draw.wanted[unit]

\* C25: whatever image loads arrive between the frames, every sphere and ring
\* draw finds on each texture unit it samples the texture it asked for, and
\* whenever bindTextureOptimized skips a bind the texture the cache records
\* for the unit is the one bound there
C25_DrawsSampleRequestedTextures ==
    /\ \A i \in DOMAIN gl.draws :
           gl.draws[i].kind \in {"sphere", "ring"} => SamplesWanted(gl.draws[i])
    /\ \A i \in DOMAIN gl.binds :
           gl.binds[i].held => gl.binds[i].bound = gl.binds[i].after

\* the sun is drawn with the ring texture on unit 0: the image of the ring
\* arrived after a frame, and the next frame skipped the sun's bind
C25_StaleUnit ==
    /\ lastEvent = "render"
    /\ textures["saturnRing"].status = "loaded"
    /\ \E i \in DOMAIN gl.draws :
           /\ gl.draws[i].kind = "sphere"
           /\ gl.draws[i].role = "sun"
           /\ gl.draws[i].wanted[0] = Some("sun")
           /\ gl.draws[i].texture2D[0] = Some("saturnRing")
    /\ \E i \in DOMAIN gl.binds :
           /\ gl.binds[i].held
           /\ gl.binds[i].after = Some("sun")
           /\ gl.binds[i].bound = Some("saturnRing")

-----------------------------------------------------------------------------
(* Properties of the URL parameters and the zoom                           *)

\* the focus target names the sun, a planet of the configuration or a moon of
\* one of its planets
Designates(cfg, focus) ==
    \/ focus = FocusSun
    \/ /\ focus.kind = "body"
       /\ focus.p >= 0
       /\ focus.p < Len(cfg.planets)
    \/ /\ focus.kind = "moon"
       /\ focus.p >= 0
       /\ focus.p < Len(cfg.planets)
       /\ focus.m >= 0
       /\ focus.m < Len(cfg.planets[focus.p + 1].moons)

\* C26: a focus parameter that validateURLParams accepts, once assigned to
\* camera.focusTarget, designates a body of the configuration, so that no
\* frame and no focus request indexes a missing planet or moon; any other
\* focus parameter leaves the default focus in place
C26_AcceptedFocusDesignatesBody ==
    computed.fn = "validateURLParams" =>
        /\ Designates(config, camera.focusTarget)
        /\ lastEvent # "TypeError"
        /\ lastEvent = "url" =>
               camera.focusTarget = IF Given(computed.validParams.focus)
                                    THEN computed.validParams.focus.v
                                    ELSE FocusSun

\* ?focus=moon-0-5 was accepted although Earth has one moon, and the first
\* frame threw
C26_MissingMoonFocused ==
    /\ computed.fn = "validateURLParams"
    /\ computed.urlParams.focus = Some(MoonString(0, 5))
    /\ camera.focusTarget = FocusMoon(0, 5)
    /\ ~Designates(config, camera.focusTarget)
    /\ started
    /\ lastEvent = "TypeError"

-----------------------------------------------------------------------------
(* Properties of the blend and depth-write state                           *)

SceneKinds == {"orbit", "asteroid", "kuiper", "sphere", "spot", "ring"}

\* C28: orbit paths, belts, spheres, spots and rings are drawn with depth
\* writes on and blending off; depth writes are off and blending is on for the
\* particle draw only, and both are restored when the frame ends, whether or
\* not the frame has particles
C28_ParticleStateConfined ==
    /\ gl.depthMask
    /\ ~gl.blend
    /\ \A i \in DOMAIN gl.draws :
           /\ gl.draws[i].kind \in SceneKinds \cup {"cme"}
           /\ gl.draws[i].kind \in SceneKinds =>
                  gl.draws[i].depthMask /\ ~gl.draws[i].blend
           /\ gl.draws[i].kind = "cme" =>
                  ~gl.draws[i].depthMask /\ gl.draws[i].blend

\* a later frame that drew a scene of every kind and then particles, and put
\* the state back
C28_Witness ==
    /\ frames >= 2
    /\ lastEvent = "render"
    /\ Len(cmeParticles) > 0
    /\ \E i \in DOMAIN gl.draws : gl.draws[i].kind = "cme"
    /\ \A kind \in SceneKinds : \E i \in DOMAIN gl.draws : gl.draws[i].kind = kind
    /\ gl.depthMask
    /\ ~gl.blend

-----------------------------------------------------------------------------
(* Properties of the loading overlay                                       *)

Settled == {slot \in DOMAIN textures : textures[slot].status # "loading"}

\* C29: every requested texture is counted once, when it loads or fails, and
\* when all of them have loaded or failed the count has reached totalTextures
\* and the overlay is on its way out
C29_CountReachesTotal ==
    /\ loading.loadedCount = Cardinality(Settled)
    /\ Settled = DOMAIN textures =>
           /\ loading.loadedCount >= loading.totalTextures
           /\ loading.overlay \in {"leaving", "removed"}

\* a sun without a texture: all the textures requested have loaded or failed,
\* the count is one short of the total and the overlay stays
C29_OverlayStays ==
    /\ ~config.sun.texture
    /\ Settled = DOMAIN textures
    /\ loading.loadedCount = loading.totalTextures - 1
    /\ loading.overlay = "shown"
    /\ \E slot \in DOMAIN textures : textures[slot].status = "failed"

-----------------------------------------------------------------------------
(* Properties of the index buffers                                         *)

\* every index of the buffers names one of count vertices, and there are
\* expected of them
IndicesWithin(buffers, count, expected) ==
    /\ buffers.vertexCount = count
    /\ buffers.indexCount = expected
    /\ DOMAIN buffers.indices = 1..expected
    /\ \A k \in DOMAIN buffers.indices :
           buffers.indices[k] >= 0 /\ buffers.indices[k] < count

\* C30: createSphere emits 6 * lat * lon indices, each below
\* (lat + 1) * (lon + 1); createRing emits 6 * segments indices, each below
\* 2 * (segments + 1); the sphere and the ring the program creates have fewer
\* than 65536 vertices
C30_IndicesInRange ==
    /\ computed.fn = "createSphere" =>
           /\ IndicesWithin(computed.buffers,
                            (computed.latitudeBands + 1) * (computed.longitudeBands + 1),
                            6 * computed.latitudeBands * computed.longitudeBands)
           /\ computed.latitudeBands = SphereBands /\ computed.longitudeBands = SphereBands
                  => computed.buffers.vertexCount < 65536
    /\ computed.fn = "createRing" =>
           /\ IndicesWithin(computed.buffers, 2 * (computed.segments + 1),
                            6 * computed.segments)
           /\ computed.segments = RingSegments => computed.buffers.vertexCount < 65536

\* the sphere the program draws every body with: 1089 vertices, the last
\* index emitted names the last of them
C30_Witness ==
    /\ computed.fn = "createSphere"
    /\ computed.latitudeBands = SphereBands
    /\ computed.longitudeBands = SphereBands
    /\ computed.buffers.vertexCount = 1089
    /\ computed.buffers.indexCount = 6144
    /\ computed.buffers.indices[6143] = 1088

====
